---------------------------- MODULE Spec2Model ----------------------------
(***************************************************************************)
(* Model of the observability core of Infra-mind:                          *)
(*   app/services/metric_service.py    the per-resource time-series store  *)
(*   app/services/anomaly_service.py   the z-score anomaly detector        *)
(*   app/services/sla_risk_service.py  the weighted SLA risk scorer        *)
(*                                                                         *)
(* Timestamps and the clock are integers (minutes).  A resource id is a    *)
(* sequence of one-character strings, so that str.strip() can be computed. *)
(* A sample carries a ghost field "id" (its arrival number): it stands for *)
(* the identity of the MetricEntry object and is never read by the code.   *)
(***************************************************************************)
EXTENDS Integers, Sequences, FiniteSets, TLC

VARIABLES
    store,      \* MetricService._store: resource id -> list of samples
    now,        \* datetime.now(timezone.utc), in minutes
    hist,       \* ghost: per resource, every sample add_metric accepted, in arrival order
    result,     \* the last call of the sequential specifications and what it returned
    pc,         \* per thread: position inside its store operation
    call,       \* per thread: the operation it runs and its arguments
    holders,    \* the threads inside "with self._lock"
    seen,       \* per thread: what its read returned / observed
    committed,  \* ghost: the store after the adds that completed, applied one by one
    slas        \* SLAService._slas: SLA id -> SLA record

vars == <<store, now, hist, result, pc, call, holders, seen, committed, slas>>

---------------------------------------------------------------------------
(* Bounds of the model *)

MAX_ENTRIES_PER_RESOURCE == 4   \* metric_service.py:16 sets 10000; scaled down
MaxAdds == 5                    \* accepted add_metric calls, per behaviour of the store
MaxCallAdds == 2                \* accepted add_metric calls, per behaviour of the calls
TimeStep == 30                  \* minutes between two sample instants
DatetimeRange == 1000           \* minutes between datetime.min and instant 0; scaled down

---------------------------------------------------------------------------
(* Inputs *)

ResourceIds == { <<>>, <<" ">>, <<"a">>, <<"b">> }

Timestamps == { 0, TimeStep, 2 * TimeStep }

\* the clock is read between two sample instants
Half == TimeStep \div 2

Clock == { Half, TimeStep + Half }

\* the last one reaches back beyond datetime.min
MinutesArgs == { 0 - Half, 0, Half, TimeStep + Half, 2 * DatetimeRange }

\* (cpu_usage, memory_usage, gpu_usage) of the samples the store specifications add
Usages == { <<50, 50, 50>> }

\* Python's None
None == [none |-> TRUE]

\* datetime arithmetic whose result is not a representable datetime
OverflowError == [exc |-> "OverflowError", ret |-> <<>>]

\* the outcome of a call: it raised ValueError, or it returned a value
ValueError == [exc |-> "ValueError", ret |-> <<>>]

Return(value) == [exc |-> "none", ret |-> value]

---------------------------------------------------------------------------
(* str.strip() and the blank test every operation starts with *)

IsSpace(c) == c \in {" ", "\t", "\n"}

RECURSIVE LStrip(_)
LStrip(s) == IF s = <<>> THEN s
             ELSE IF IsSpace(Head(s)) THEN LStrip(Tail(s)) ELSE s

RECURSIVE RStrip(_)
RStrip(s) == IF s = <<>> THEN s
             ELSE IF IsSpace(s[Len(s)]) THEN RStrip(SubSeq(s, 1, Len(s) - 1)) ELSE s

Strip(s) == RStrip(LStrip(s))

\* a validation that forgets strip()
IsBlankNoStrip(resource_id) == resource_id = <<>>

\* "not resource_id or not resource_id.strip()"
IsBlank(resource_id) == resource_id = <<>> \/ Strip(resource_id) = <<>>

ValidIds == { r \in ResourceIds : Strip(r) # <<>> }

---------------------------------------------------------------------------
(* metric_service.py *)

MetricEntry(resource_id, usage, timestamp, id) ==
    [ resource_id  |-> resource_id,
      cpu_usage    |-> usage[1],
      memory_usage |-> usage[2],
      gpu_usage    |-> usage[3],
      timestamp    |-> timestamp,
      id           |-> id ]

\* The loop of _find_insertion_index; left and right are Python's 0-based indices.
RECURSIVE InsertionLoop(_, _, _, _)
InsertionLoop(entries, timestamp, left, right) ==
    IF left < right
    THEN LET mid == (left + right) \div 2
         IN IF entries[mid + 1].timestamp <= timestamp
            THEN InsertionLoop(entries, timestamp, mid + 1, right)
            ELSE InsertionLoop(entries, timestamp, left, mid)
    ELSE left

\* a bisect-left instead of a bisect-right
RECURSIVE InsertionLoopLeft(_, _, _, _)
InsertionLoopLeft(entries, timestamp, left, right) ==
    IF left < right
    THEN LET mid == (left + right) \div 2
         IN IF entries[mid + 1].timestamp < timestamp
            THEN InsertionLoopLeft(entries, timestamp, mid + 1, right)
            ELSE InsertionLoopLeft(entries, timestamp, left, mid)
    ELSE left

\* an insertion index in front of the samples with the same timestamp
find_insertion_index_left(entries, timestamp) ==
    InsertionLoopLeft(entries, timestamp, 0, Len(entries))

_find_insertion_index(entries, timestamp) ==
    InsertionLoop(entries, timestamp, 0, Len(entries))

\* The loop of _find_cutoff_index.
RECURSIVE CutoffLoop(_, _, _, _)
CutoffLoop(entries, cutoff, left, right) ==
    IF left < right
    THEN LET mid == (left + right) \div 2
         IN IF entries[mid + 1].timestamp < cutoff
            THEN CutoffLoop(entries, cutoff, mid + 1, right)
            ELSE CutoffLoop(entries, cutoff, left, mid)
    ELSE left

\* a cutoff search that skips the samples exactly at the cutoff
find_cutoff_index_strict(entries, cutoff) ==
    InsertionLoop(entries, cutoff, 0, Len(entries))

_find_cutoff_index(entries, cutoff) ==
    CutoffLoop(entries, cutoff, 0, Len(entries))

\* list.insert(pos, metric), pos 0-based
ListInsert(entries, pos, metric) ==
    SubSeq(entries, 1, pos) \o <<metric>> \o SubSeq(entries, pos + 1, Len(entries))

\* entries[start:], start 0-based and within 0..len
SliceFrom(entries, start) == SubSeq(entries, start + 1, Len(entries))

\* entries[-n:], n >= 1
LastN(entries, n) ==
    IF Len(entries) <= n THEN entries
    ELSE SubSeq(entries, Len(entries) - n + 1, Len(entries))

\* an insertion that always appends
InsertAlwaysAppend(entries, metric) == Append(entries, metric)

\* add_metric, lines 121-127: append if chronological, binary search otherwise
Insert(entries, metric) ==
    IF entries = <<>> \/ metric.timestamp >= entries[Len(entries)].timestamp
    THEN Append(entries, metric)
    ELSE ListInsert(entries, _find_insertion_index(entries, metric.timestamp), metric)

\* a retention that keeps the oldest samples
RetainOldest(entries) ==
    IF Len(entries) > MAX_ENTRIES_PER_RESOURCE
    THEN SubSeq(entries, 1, MAX_ENTRIES_PER_RESOURCE)
    ELSE entries

\* add_metric, lines 129-131: keep only the most recent entries
Retain(entries) ==
    IF Len(entries) > MAX_ENTRIES_PER_RESOURCE
    THEN LastN(entries, MAX_ENTRIES_PER_RESOURCE)
    ELSE entries

\* add_metric, lines 116-117: the dict with the key created when missing
WithKey(st, resource_id) ==
    IF resource_id \in DOMAIN st THEN st
    ELSE [ r \in DOMAIN st \cup {resource_id} |->
             IF r = resource_id THEN <<>> ELSE st[r] ]

\* a lookup that creates the series it does not find (dict.setdefault)
StoreAfterSetDefault(st, resource_id) == WithKey(st, resource_id)

\* the dict after self._store.get(resource_id, []): no key is created
StoreAfterGet(st, resource_id) == st

\* the store after a read that ended with outcome: the validation raises before
\* the dict is looked at
StoreAfterRead(st, resource_id, outcome) ==
    IF outcome.exc = "ValueError" THEN st ELSE StoreAfterGet(st, resource_id)

\* dict.get(resource_id, [])
Entries(st, resource_id) ==
    IF resource_id \in DOMAIN st THEN st[resource_id] ELSE <<>>

\* the store after add_metric(metric) on a store st, for a metric that passed validation
\* an add that makes room in a full series before it inserts
add_metric_making_room(st, metric) ==
    LET keyed == WithKey(st, metric.resource_id)
    IN [ keyed EXCEPT ![metric.resource_id] =
           Insert(LastN(@, MAX_ENTRIES_PER_RESOURCE - 1), metric) ]

\* an add whose series share one list: the sample enters every series
add_metric_shared_list(st, metric) ==
    LET keyed == WithKey(st, metric.resource_id)
    IN [ r \in DOMAIN keyed |-> Retain(Insert(keyed[r], metric)) ]

\* add_metric, lines 115-131, for a resource id that passed the validation
add_metric(st, metric) ==
    LET keyed == WithKey(st, metric.resource_id)
    IN [ keyed EXCEPT ![metric.resource_id] = Retain(Insert(@, metric)) ]

\* a get_latest_metric that returns the first entry
get_oldest_metric(st, resource_id) ==
    IF IsBlank(resource_id) THEN ValueError
    ELSE LET entries == Entries(st, resource_id)
         IN IF entries = <<>> THEN Return(None) ELSE Return(entries[1])

\* the outcome of get_latest_metric
get_latest_metric(st, resource_id) ==
    IF IsBlank(resource_id) THEN ValueError
    ELSE LET entries == Entries(st, resource_id)
         IN IF entries = <<>> THEN Return(None) ELSE Return(entries[Len(entries)])

\* the outcome of get_metrics_last_n_minutes when the clock reads t
get_metrics_last_n_minutes(st, t, resource_id, minutes) ==
    IF IsBlank(resource_id) THEN ValueError
    ELSE IF minutes <= 0 THEN ValueError
    ELSE LET entries == Entries(st, resource_id)
         IN IF entries = <<>> THEN Return(<<>>)
            \* line 168: datetime.now(timezone.utc) - timedelta(minutes=minutes)
            ELSE IF t - minutes < 0 - DatetimeRange THEN OverflowError
            ELSE Return(SliceFrom(entries, _find_cutoff_index(entries, t - minutes)))

---------------------------------------------------------------------------
(* Floating point.  Python floats are IEEE binary64 (53-bit significand,     *)
(* round to nearest, ties to even).  The model keeps the rounding and      *)
(* scales the significand down to FloatPrecision bits.  Rounding is        *)
(* modelled where the code tests a computed float for exact equality (the  *)
(* mean that feeds "std == 0"); differences, squares and the comparisons   *)
(* with a threshold are evaluated on the exact values.                     *)

FloatPrecision == 7

RECURSIVE Pow2(_)
Pow2(n) == IF n <= 0 THEN 1 ELSE 2 * Pow2(n - 1)

RECURSIVE BitLen(_)
BitLen(k) == IF k <= 0 THEN 0 ELSE 1 + BitLen(k \div 2)

\* the integer nearest to num / den (num >= 0, den > 0), ties to even
RoundHalfEven(num, den) ==
    LET q == num \div den
        r == num % den
    IN IF 2 * r < den THEN q
       ELSE IF 2 * r > den THEN q + 1
       ELSE IF q % 2 = 0 THEN q ELSE q + 1

\* the float nearest to the integer k >= 0
FloatOfInt(k) ==
    LET j == BitLen(k) - FloatPrecision
    IN IF j <= 0 THEN k ELSE Pow2(j) * RoundHalfEven(k, Pow2(j))

\* sum(values) of integer-valued floats: a left fold, rounded at every step
RECURSIVE FloatSum(_, _)
FloatSum(values, acc) ==
    IF values = <<>> THEN acc
    ELSE FloatSum(Tail(values), FloatOfInt(acc + Head(values)))

\* the least k >= 0 with num * 2^k / den >= 2^(FloatPrecision - 1)
RECURSIVE Normalise(_, _, _)
Normalise(num, den, k) ==
    IF (num * Pow2(k)) \div den >= Pow2(FloatPrecision - 1) THEN k
    ELSE Normalise(num, den, k + 1)

\* the float nearest to num / den (num >= 0, den > 0), as [m, k]: the value m / 2^k
FloatDiv(num, den) ==
    IF num = 0 THEN [m |-> 0, k |-> 0]
    ELSE LET q == num \div den
             j == BitLen(q) - FloatPrecision
         IN IF j >= 0
            THEN [m |-> Pow2(j) * RoundHalfEven(num, den * Pow2(j)), k |-> 0]
            ELSE LET k == Normalise(num, den, 0)
                 IN [m |-> RoundHalfEven(num * Pow2(k), den), k |-> k]

---------------------------------------------------------------------------
(* anomaly_service.py *)

\* anomaly_service.py:25 sets 10; scaled down with the capacity of the store, so
\* that a series can hold the window_size + 1 samples of an analysis
DEFAULT_WINDOW_SIZE == 3

\* z thresholds are in tenths: 20 is 2.0
DEFAULT_Z_THRESHOLD == 20

\* the horizon detect_anomaly passes to get_metrics_last_n_minutes
DETECT_LOOKBACK_MINUTES == 60

MetricNames == <<"cpu_usage", "memory_usage", "gpu_usage">>

\* [getattr(m, metric_name) for m in window]
RECURSIVE ValuesOf(_, _)
ValuesOf(window, metric_name) ==
    IF window = <<>> THEN <<>>
    ELSE <<Head(window)[metric_name]>> \o ValuesOf(Tail(window), metric_name)

\* a mean computed without rounding error
calculate_mean_exact(values) ==
    IF values = <<>> THEN [m |-> 0, k |-> 0]
    ELSE LET RECURSIVE Total(_)
             Total(v) == IF v = <<>> THEN 0 ELSE Head(v) + Total(Tail(v))
             n == Len(values)
             k == CHOOSE i \in 0..8 : (Total(values) * Pow2(i)) % n = 0 \/ i = 8
         IN [m |-> (Total(values) * Pow2(k)) \div n, k |-> k]

\* _calculate_mean: sum(values) / len(values), as [m, k]: the value m / 2^k
_calculate_mean(values) ==
    IF values = <<>> THEN [m |-> 0, k |-> 0]
    ELSE FloatDiv(FloatSum(values, 0), Len(values))

\* sum((x - mean) ** 2 for x in values), in units of 1 / 4^mean.k
RECURSIVE SquaredDeviations(_, _)
SquaredDeviations(values, mean) ==
    IF values = <<>> THEN 0
    ELSE LET d == Head(values) * Pow2(mean.k) - mean.m
         IN d * d + SquaredDeviations(Tail(values), mean)

\* _calculate_sample_std, squared and times (n - 1): zero exactly when the
\* standard deviation is zero
_calculate_sample_std(values, mean) ==
    IF Len(values) < 2 THEN 0 ELSE SquaredDeviations(values, mean)

\* _calculate_z_score, squared, as the fraction [num, den]; n is len(values)
_calculate_z_score(value, mean, std, n) ==
    IF std = 0 THEN [num |-> 0, den |-> 1]
    ELSE LET d == value * Pow2(mean.k) - mean.m
         IN [num |-> (n - 1) * d * d, den |-> std]

\* z > z_threshold, for z >= 0 given by its square and a threshold t > 0 in tenths
ZGreater(z, t) == 100 * z.num > t * t * z.den

\* z >= 2 * z_threshold
ZAtLeastTwice(z, t) == 100 * z.num >= 4 * t * t * z.den

ZLess(a, b) == a.num * b.den < b.num * a.den

\* max(z_scores[m] for m in anomalies)
RECURSIVE MaxZ(_)
MaxZ(zs) ==
    IF Len(zs) = 1 THEN zs[1]
    ELSE LET rest == MaxZ(Tail(zs))
         IN IF ZLess(Head(zs), rest) THEN rest ELSE Head(zs)

\* [q, r] with q = floor(a * f1 * ... * fn / d), started from q = a div d, r = a mod d
RECURSIVE ScaleDiv(_, _, _, _)
ScaleDiv(q, r, d, factors) ==
    IF factors = <<>> THEN [q |-> q, r |-> r]
    ELSE LET f == Head(factors)
         IN ScaleDiv(q * f + (r * f) \div d, (r * f) % d, d, Tail(factors))

\* floor(sqrt(n)) by bisection in lo..hi
RECURSIVE ISqrt(_, _, _)
ISqrt(n, lo, hi) ==
    IF lo >= hi THEN lo
    ELSE LET mid == (lo + hi + 1) \div 2
         IN IF mid * mid <= n THEN ISqrt(n, mid, hi) ELSE ISqrt(n, lo, mid - 1)

\* a confidence that rounds up to the next thousandth
z_score_to_confidence_ceil(z, t) ==
    IF ~ZGreater(z, t) THEN 0
    ELSE IF ZAtLeastTwice(z, t) THEN 1000
    ELSE 1 + (ISqrt(ScaleDiv(z.num \div (t * t * z.den), z.num % (t * t * z.den),
                             t * t * z.den, <<10, 10, 10, 10, 10, 10, 10, 10, 4>>).q,
                    0, 4000) - 1999) \div 2

\* _z_score_to_confidence, in thousandths: round(min((z - t) / t, 1.0), 3).
\* With x = 2000 * z / t, the result is (x - 1999) / 2 rounded down to an
\* integer, and a tie (x an odd integer) goes to the even neighbour.
_z_score_to_confidence(z, t) ==
    IF ~ZGreater(z, t) THEN 0
    ELSE IF ZAtLeastTwice(z, t) THEN 1000
    ELSE LET d == t * t * z.den
             s2 == ScaleDiv(z.num \div d, z.num % d, d,
                            <<10, 10, 10, 10, 10, 10, 10, 10, 4>>)
             s == ISqrt(s2.q, 0, 4000)
             c == (s - 1999) \div 2
             tie == s2.r = 0 /\ s * s = s2.q /\ s % 2 = 1
         IN IF tie /\ c % 2 = 1 THEN c - 1 ELSE c

INSUFFICIENT_DATA == "INSUFFICIENT_DATA"

AnomalyResult(status, anomaly_metrics, confidence_score) ==
    [ status           |-> status,
      anomaly_detected |-> anomaly_metrics # <<>>,
      anomaly_metrics  |-> anomaly_metrics,
      confidence_score |-> confidence_score ]

\* all_metrics[-window_size:]: a window that ends with the latest sample
BaselineWindowWithLatest(all_metrics, window_size) ==
    LastN(all_metrics, window_size)

\* all_metrics[-(window_size + 1):-1]: a slice start before the list is its start
BaselineWindow(all_metrics, window_size) ==
    LET n == Len(all_metrics)
        start == IF n - (window_size + 1) < 0 THEN 0 ELSE n - (window_size + 1)
    IN SubSeq(all_metrics, start + 1, n - 1)

\* the z-score of one metric of the latest sample against the window
ZScoreOf(window, latest, metric_name) ==
    LET values == ValuesOf(window, metric_name)
        mean == _calculate_mean(values)
        std == _calculate_sample_std(values, mean)
    IN _calculate_z_score(latest[metric_name], mean, std, Len(values))

\* the "for metric_name in [...]" loop of detect_anomaly and what follows it
Analyse(all_metrics, window_size, z_threshold) ==
    LET latest == all_metrics[Len(all_metrics)]
        window == BaselineWindow(all_metrics, window_size)
        z_scores == [ i \in 1..3 |-> ZScoreOf(window, latest, MetricNames[i]) ]
        anomalous == SelectSeq(<<1, 2, 3>>, LAMBDA i : ZGreater(z_scores[i], z_threshold))
        anomalies == [ j \in 1..Len(anomalous) |-> MetricNames[anomalous[j]] ]
    IN IF anomalies # <<>>
       THEN AnomalyResult("ANOMALY", anomalies,
                _z_score_to_confidence(
                    MaxZ([ j \in 1..Len(anomalous) |-> z_scores[anomalous[j]] ]),
                    z_threshold))
       ELSE AnomalyResult("OK", <<>>, 0)

\* a detector that accepts exactly window_size samples
enough_samples_off_by_one(all_metrics, window_size) == Len(all_metrics) >= window_size

\* "len(all_metrics) < window_size + 1" does not hold
enough_samples(all_metrics, window_size) == ~(Len(all_metrics) < window_size + 1)

\* a detector that looks back 45 minutes only
DetectShorterLookback(st, t, resource_id, window_size, z_threshold) ==
    LET read == get_metrics_last_n_minutes(st, t, resource_id, 45)
        all_metrics == read.ret
    IN IF read.exc # "none" THEN read
       ELSE IF ~enough_samples(all_metrics, window_size)
       THEN Return(AnomalyResult(INSUFFICIENT_DATA, <<>>, 0))
       ELSE Return(Analyse(all_metrics, window_size, z_threshold))

\* detect_anomaly from line 114 on, for arguments that passed validation
Detect(st, t, resource_id, window_size, z_threshold) ==
    LET read == get_metrics_last_n_minutes(st, t, resource_id, DETECT_LOOKBACK_MINUTES)
        all_metrics == read.ret
    IN IF read.exc # "none" THEN read
       ELSE IF all_metrics = <<>> THEN Return(AnomalyResult(INSUFFICIENT_DATA, <<>>, 0))
       ELSE IF ~enough_samples(all_metrics, window_size)
       THEN Return(AnomalyResult(INSUFFICIENT_DATA, <<>>, 0))
       ELSE Return(Analyse(all_metrics, window_size, z_threshold))

\* a detector that looks at the data before it looks at its parameters
detect_anomaly_late_validation(st, t, resource_id, window_size, z_threshold) ==
    IF IsBlank(resource_id) THEN ValueError
    ELSE IF Entries(st, resource_id) = <<>>
    THEN Return(AnomalyResult(INSUFFICIENT_DATA, <<>>, 0))
    ELSE IF window_size < 2 THEN ValueError
    ELSE IF z_threshold <= 0 THEN ValueError
    ELSE Detect(st, t, resource_id, window_size, z_threshold)

\* the outcome of detect_anomaly when the clock reads t
detect_anomaly(st, t, resource_id, window_size, z_threshold) ==
    IF IsBlank(resource_id) THEN ValueError
    ELSE IF window_size < 2 THEN ValueError
    ELSE IF z_threshold <= 0 THEN ValueError
    ELSE Detect(st, t, resource_id, window_size, z_threshold)

---------------------------------------------------------------------------
(* sla_risk_service.py.  Scores, signal values and contributions are in     *)
(* thousandths (round(x, 3) * 1000), weights in tenths.                     *)

DEFAULT_CPU_THRESHOLD == 80

DEFAULT_MEMORY_THRESHOLD == 85

DEFAULT_GPU_THRESHOLD == 90

RISK_LOW_THRESHOLD == 300

RISK_HIGH_THRESHOLD == 600

ANOMALY_WEIGHT == 4

BREACH_WEIGHT == 6

\* a count that takes a value equal to its threshold for a breach
RECURSIVE BreachesInclusive(_, _, _)
BreachesInclusive(metrics, metric_name, threshold) ==
    IF metrics = <<>> THEN 0
    ELSE (IF Head(metrics)[metric_name] >= threshold THEN 1 ELSE 0)
         + BreachesInclusive(Tail(metrics), metric_name, threshold)

\* sum(1 for m in metrics if m.<metric_name> > threshold)
RECURSIVE Breaches(_, _, _)
Breaches(metrics, metric_name, threshold) ==
    IF metrics = <<>> THEN 0
    ELSE (IF Head(metrics)[metric_name] > threshold THEN 1 ELSE 0)
         + Breaches(Tail(metrics), metric_name, threshold)

\* _calculate_threshold_breach_rate, as the fraction [num, den]
_calculate_threshold_breach_rate(metrics, cpu_threshold, memory_threshold, gpu_threshold) ==
    IF metrics = <<>> THEN [num |-> 0, den |-> 1]
    ELSE [ num |-> Breaches(metrics, "cpu_usage", cpu_threshold)
                   + Breaches(metrics, "memory_usage", memory_threshold)
                   + Breaches(metrics, "gpu_usage", gpu_threshold),
           den |-> Len(metrics) * 3 ]

RiskSignal(name, value, weight, contribution) ==
    [ name |-> name, value |-> value, weight |-> weight, contribution |-> contribution ]

SLARiskResult(status, resource_id, risk_score, risk_level, signals) ==
    [ status      |-> status,
      resource_id |-> resource_id,
      risk_score  |-> risk_score,
      risk_level  |-> risk_level,
      signals     |-> signals ]

\* risk levels whose bounds belong to the lower level
RiskLevelOfInclusive(risk_score) ==
    IF risk_score <= RISK_LOW_THRESHOLD THEN "LOW"
    ELSE IF risk_score <= RISK_HIGH_THRESHOLD THEN "MEDIUM"
    ELSE "HIGH"

\* lines 179-185: the risk level of a rounded score
RiskLevelOf(risk_score) ==
    IF risk_score < RISK_LOW_THRESHOLD THEN "LOW"
    ELSE IF risk_score < RISK_HIGH_THRESHOLD THEN "MEDIUM"
    ELSE "HIGH"

\* a score that weighs the samples within their thresholds instead of the breaches
ScoreRiskOfHeadroom(resource_id, metrics, anomaly_result, cpu_threshold, memory_threshold, gpu_threshold) ==
    LET anomaly_score == IF anomaly_result.status = "ANOMALY"
                         THEN anomaly_result.confidence_score ELSE 0
        breach_rate == _calculate_threshold_breach_rate(
                           metrics, cpu_threshold, memory_threshold, gpu_threshold)
        total_num == ANOMALY_WEIGHT * anomaly_score * breach_rate.den
                     + BREACH_WEIGHT * 1000 * (breach_rate.den - breach_rate.num)
        total_den == 10 * 1000 * breach_rate.den
        risk_score == RoundHalfEven(1000 * total_num, total_den)
    IN SLARiskResult("OK", resource_id, risk_score, RiskLevelOf(risk_score),
         << RiskSignal("anomaly_presence", anomaly_score, ANOMALY_WEIGHT,
                       RoundHalfEven(ANOMALY_WEIGHT * anomaly_score, 10)),
            RiskSignal("threshold_breach_rate",
                       RoundHalfEven(1000 * breach_rate.num, breach_rate.den),
                       BREACH_WEIGHT,
                       RoundHalfEven(BREACH_WEIGHT * 100 * breach_rate.num,
                                     breach_rate.den)) >>)

\* a score with the two weights exchanged
ScoreRiskWeightsExchanged(resource_id, metrics, anomaly_result, cpu_threshold, memory_threshold, gpu_threshold) ==
    LET anomaly_score == IF anomaly_result.status = "ANOMALY"
                         THEN anomaly_result.confidence_score ELSE 0
        breach_rate == _calculate_threshold_breach_rate(
                           metrics, cpu_threshold, memory_threshold, gpu_threshold)
        total_num == BREACH_WEIGHT * anomaly_score * breach_rate.den
                     + ANOMALY_WEIGHT * 1000 * breach_rate.num
        total_den == 10 * 1000 * breach_rate.den
        risk_score == RoundHalfEven(1000 * total_num, total_den)
    IN SLARiskResult("OK", resource_id, risk_score, RiskLevelOf(risk_score),
         << RiskSignal("anomaly_presence", anomaly_score, ANOMALY_WEIGHT,
                       RoundHalfEven(ANOMALY_WEIGHT * anomaly_score, 10)),
            RiskSignal("threshold_breach_rate",
                       RoundHalfEven(1000 * breach_rate.num, breach_rate.den),
                       BREACH_WEIGHT,
                       RoundHalfEven(BREACH_WEIGHT * 100 * breach_rate.num,
                                     breach_rate.den)) >>)

\* compute_sla_risk from line 140 on: metrics is its own window read (not empty),
\* anomaly_result what detect_anomaly(resource_id) returned afterwards
ScoreRisk(resource_id, metrics, anomaly_result, cpu_threshold, memory_threshold, gpu_threshold) ==
    LET anomaly_score == IF anomaly_result.status = "ANOMALY"
                         THEN anomaly_result.confidence_score ELSE 0
        breach_rate == _calculate_threshold_breach_rate(
                           metrics, cpu_threshold, memory_threshold, gpu_threshold)
        \* anomaly_contribution + breach_contribution = total_num / total_den
        total_num == ANOMALY_WEIGHT * anomaly_score * breach_rate.den
                     + BREACH_WEIGHT * 1000 * breach_rate.num
        total_den == 10 * 1000 * breach_rate.den
        risk_score == IF total_num > total_den THEN 1000
                      ELSE RoundHalfEven(1000 * total_num, total_den)
    IN SLARiskResult("OK", resource_id, risk_score, RiskLevelOf(risk_score),
         << RiskSignal("anomaly_presence", anomaly_score, ANOMALY_WEIGHT,
                       RoundHalfEven(ANOMALY_WEIGHT * anomaly_score, 10)),
            RiskSignal("threshold_breach_rate",
                       RoundHalfEven(1000 * breach_rate.num, breach_rate.den),
                       BREACH_WEIGHT,
                       RoundHalfEven(BREACH_WEIGHT * 100 * breach_rate.num,
                                     breach_rate.den)) >>)

\* a scorer that gives up when the detector has too few samples
compute_sla_risk_needs_baseline(st, t, resource_id, lookback_minutes, cpu_threshold, memory_threshold, gpu_threshold) ==
    IF IsBlank(resource_id) THEN ValueError
    ELSE IF lookback_minutes <= 0 THEN ValueError
    ELSE LET read == get_metrics_last_n_minutes(st, t, resource_id, lookback_minutes)
             anomaly == detect_anomaly(st, t, resource_id,
                                       DEFAULT_WINDOW_SIZE, DEFAULT_Z_THRESHOLD)
         IN IF read.exc # "none" THEN read
            ELSE IF read.ret = <<>> \/ anomaly.ret.status = INSUFFICIENT_DATA
            THEN Return(SLARiskResult(INSUFFICIENT_DATA, resource_id, 0, "LOW", <<>>))
            ELSE Return(ScoreRisk(resource_id, read.ret, anomaly.ret,
                                  cpu_threshold, memory_threshold, gpu_threshold))

\* a scorer that hands the detector a window of its own choice
compute_sla_risk_shorter_window(st, t, resource_id, lookback_minutes, cpu_threshold, memory_threshold, gpu_threshold) ==
    IF IsBlank(resource_id) THEN ValueError
    ELSE IF lookback_minutes <= 0 THEN ValueError
    ELSE LET read == get_metrics_last_n_minutes(st, t, resource_id, lookback_minutes)
             anomaly == detect_anomaly(st, t, resource_id,
                                       DEFAULT_WINDOW_SIZE - 1, DEFAULT_Z_THRESHOLD)
         IN IF read.exc # "none" THEN read
            ELSE IF read.ret = <<>>
            THEN Return(SLARiskResult(INSUFFICIENT_DATA, resource_id, 0, "LOW", <<>>))
            ELSE IF anomaly.exc # "none" THEN anomaly
            ELSE Return(ScoreRisk(resource_id, read.ret, anomaly.ret,
                                  cpu_threshold, memory_threshold, gpu_threshold))

\* the outcome of compute_sla_risk when the clock reads t and no add runs meanwhile
compute_sla_risk(st, t, resource_id, lookback_minutes, cpu_threshold, memory_threshold, gpu_threshold) ==
    IF IsBlank(resource_id) THEN ValueError
    ELSE IF lookback_minutes <= 0 THEN ValueError
    ELSE LET read == get_metrics_last_n_minutes(st, t, resource_id, lookback_minutes)
             anomaly == detect_anomaly(st, t, resource_id,
                                       DEFAULT_WINDOW_SIZE, DEFAULT_Z_THRESHOLD)
         IN IF read.exc # "none" THEN read
            ELSE IF read.ret = <<>>
            THEN Return(SLARiskResult(INSUFFICIENT_DATA, resource_id, 0, "LOW", <<>>))
            ELSE IF anomaly.exc # "none" THEN anomaly
            ELSE Return(ScoreRisk(resource_id, read.ret, anomaly.ret,
                                  cpu_threshold, memory_threshold, gpu_threshold))

---------------------------------------------------------------------------
(* The sequential specification: one caller, every call runs to completion *)

Threads == {1, 2}

NoCall == [op |-> "none", resource_id |-> <<>>, args |-> <<>>]

Call(op, resource_id, args) == [op |-> op, resource_id |-> resource_id, args |-> args]

\* the record of a call: what was called, its outcome, and the clock at the call
Result(op, resource_id, args, outcome) ==
    [ op |-> op, resource_id |-> resource_id, args |-> args,
      exc |-> outcome.exc, value |-> outcome.ret, at |-> now ]

\* the resource ids, minutes, window sizes and z thresholds the calls are made with
StoreIds == { <<" ">>, <<"a">>, <<"b">> }

StoreMinutes == { Half, TimeStep + Half }

WindowSizeArgs == {1, 2}

ZThresholdArgs == {0, DEFAULT_Z_THRESHOLD}

ConcVarsInit ==
    /\ pc = [t \in Threads |-> "idle"]
    /\ call = [t \in Threads |-> NoCall]
    /\ holders = {}
    /\ seen = [t \in Threads |-> None]
    /\ committed = <<>>
    /\ slas = <<>>

Init ==
    /\ store = <<>>
    /\ now = Half
    /\ hist = <<>>
    /\ result = Result("none", <<>>, <<>>, Return(None))
    /\ ConcVarsInit

concVars == <<pc, call, holders, seen, committed, slas>>

\* add_metric(metric) for a resource id of ids, while fewer than limit samples
\* were accepted
AddMetricOf(ids, limit) ==
    \E resource_id \in ids, timestamp \in Timestamps, usage \in Usages :
        LET metric == MetricEntry(resource_id, usage, timestamp, Len(hist) + 1)
        IN /\ IF IsBlank(resource_id)
              THEN /\ result' = Result("add_metric", resource_id, <<timestamp>>, ValueError)
                   /\ UNCHANGED <<store, hist>>
              ELSE /\ Len(hist) < limit
                   /\ store' = add_metric(store, metric)
                   /\ hist' = Append(hist, metric)
                   /\ result' = Result("add_metric", resource_id, <<timestamp>>,
                                       Return(None))
           /\ UNCHANGED <<now, concVars>>

GetLatestMetricOf(ids) ==
    \E resource_id \in ids :
        LET outcome == get_latest_metric(store, resource_id)
        IN /\ result' = Result("get_latest_metric", resource_id, <<>>, outcome)
           /\ store' = StoreAfterRead(store, resource_id, outcome)
           /\ UNCHANGED <<now, hist, concVars>>

GetMetricsLastNMinutesOf(ids, minutes_args) ==
    \E resource_id \in ids, minutes \in minutes_args :
        LET outcome == get_metrics_last_n_minutes(store, now, resource_id, minutes)
        IN /\ result' = Result("get_metrics_last_n_minutes", resource_id, <<minutes>>,
                               outcome)
           /\ store' = StoreAfterRead(store, resource_id, outcome)
           /\ UNCHANGED <<now, hist, concVars>>

DetectAnomalyOf(ids, window_sizes, z_thresholds) ==
    \E resource_id \in ids, window_size \in window_sizes, z_threshold \in z_thresholds :
        LET outcome == detect_anomaly(store, now, resource_id, window_size, z_threshold)
        IN /\ result' = Result("detect_anomaly", resource_id,
                               <<window_size, z_threshold>>, outcome)
           /\ store' = StoreAfterRead(store, resource_id, outcome)
           /\ UNCHANGED <<now, hist, concVars>>

\* compute_sla_risk with the memory and gpu thresholds left at their defaults
ComputeSlaRiskOf(ids, lookbacks, cpu_thresholds) ==
    \E resource_id \in ids, lookback_minutes \in lookbacks,
       cpu_threshold \in cpu_thresholds :
        LET outcome == compute_sla_risk(store, now, resource_id, lookback_minutes,
                                        cpu_threshold, DEFAULT_MEMORY_THRESHOLD,
                                        DEFAULT_GPU_THRESHOLD)
        IN /\ result' = Result("compute_sla_risk", resource_id,
                               <<lookback_minutes, cpu_threshold>>, outcome)
           /\ store' = StoreAfterRead(store, resource_id, outcome)
           /\ UNCHANGED <<now, hist, concVars>>

\* the clock advances
Tick ==
    /\ now + TimeStep \in Clock
    /\ now' = now + TimeStep
    /\ UNCHANGED <<store, hist, result, concVars>>

\* The store under one caller
AddMetric == AddMetricOf(StoreIds, MaxAdds)

GetLatestMetric == GetLatestMetricOf(StoreIds)

GetMetricsLastNMinutes == GetMetricsLastNMinutesOf(StoreIds, StoreMinutes)

Next ==
    \/ AddMetric
    \/ GetLatestMetric
    \/ GetMetricsLastNMinutes
    \/ Tick

Spec == Init /\ [][Next]_vars

\* The five core operations under one caller, with valid and invalid arguments
CallAddMetric == AddMetricOf(ResourceIds, MaxCallAdds)

CallGetLatestMetric == GetLatestMetricOf(ResourceIds)

CallGetMetricsLastNMinutes == GetMetricsLastNMinutesOf(ResourceIds, MinutesArgs)

CallDetectAnomaly == DetectAnomalyOf(ResourceIds, WindowSizeArgs, ZThresholdArgs)

CallComputeSlaRisk == ComputeSlaRiskOf(ResourceIds, MinutesArgs, {DEFAULT_CPU_THRESHOLD})

NextCalls ==
    \/ CallAddMetric
    \/ CallGetLatestMetric
    \/ CallGetMetricsLastNMinutes
    \/ CallDetectAnomaly
    \/ CallComputeSlaRisk
    \/ Tick

SpecCalls == Init /\ [][NextCalls]_vars

---------------------------------------------------------------------------
(* The store under concurrent callers.  A thread runs one store operation  *)
(* at a time; the validation runs before "with self._lock", and inside the *)
(* lock every statement of the operation is a step of its own.             *)

MaxConcAdds == 3                \* add_metric calls started, per concurrent behaviour

ConcIds == { <<"a">>, <<"b">> }

ConcTimestamps == { 0, TimeStep }

ConcMinutes == { Half }

\* no lock at all
CanAcquireAlways(t) == TRUE

\* Lock.acquire() of the one threading.Lock of the store: it is free
CanAcquire(t) == holders = {}

\* add_metric calls started so far: the completed ones and those in flight
StartedAdds == Len(hist) + Cardinality({ t \in Threads : call[t].op = "add_metric" })

\* the adds that completed before the threads start: they leave the series of
\* resource "a" one sample short of its capacity
EarlierAdds ==
    [ i \in 1..(MAX_ENTRIES_PER_RESOURCE - 1) |->
          MetricEntry(<<"a">>, <<50, 50, 50>>, TimeStep, i) ]

RECURSIVE AfterAdds(_, _)
AfterAdds(adds, st) ==
    IF adds = <<>> THEN st ELSE AfterAdds(Tail(adds), add_metric(st, Head(adds)))

InitConc ==
    /\ store = AfterAdds(EarlierAdds, <<>>)
    /\ now = TimeStep + Half
    /\ hist = EarlierAdds
    /\ result = Result("none", <<>>, <<>>, Return(None))
    /\ pc = [t \in Threads |-> "idle"]
    /\ call = [t \in Threads |-> NoCall]
    /\ holders = {}
    /\ seen = [t \in Threads |-> None]
    /\ committed = AfterAdds(EarlierAdds, <<>>)
    /\ slas = <<>>

\* a thread calls add_metric: lines 112-113 pass, the thread reaches the lock
ConcAddMetric(t) ==
    \E resource_id \in ConcIds, timestamp \in ConcTimestamps, usage \in Usages :
        /\ pc[t] = "idle"
        /\ StartedAdds < Len(EarlierAdds) + MaxConcAdds
        /\ ~IsBlank(resource_id)
        /\ call' = [call EXCEPT ![t] =
               Call("add_metric", resource_id,
                    <<MetricEntry(resource_id, usage, timestamp, StartedAdds + 1)>>)]
        /\ pc' = [pc EXCEPT ![t] = "acquire"]
        /\ UNCHANGED <<store, now, hist, result, holders, seen, committed, slas>>

\* a thread calls get_latest_metric: lines 139-140 pass
ConcGetLatestMetric(t) ==
    \E resource_id \in ConcIds :
        /\ pc[t] = "idle"
        /\ ~IsBlank(resource_id)
        /\ call' = [call EXCEPT ![t] = Call("get_latest_metric", resource_id, <<>>)]
        /\ pc' = [pc EXCEPT ![t] = "acquire"]
        /\ UNCHANGED <<store, now, hist, result, holders, seen, committed, slas>>

\* a thread calls get_metrics_last_n_minutes: lines 158-161 pass
ConcGetMetricsLastNMinutes(t) ==
    \E resource_id \in ConcIds, minutes \in ConcMinutes :
        /\ pc[t] = "idle"
        /\ ~IsBlank(resource_id)
        /\ minutes > 0
        /\ call' = [call EXCEPT ![t] =
               Call("get_metrics_last_n_minutes", resource_id, <<minutes>>)]
        /\ pc' = [pc EXCEPT ![t] = "acquire"]
        /\ UNCHANGED <<store, now, hist, result, holders, seen, committed, slas>>

\* "with self._lock:" is entered
Acquire(t) ==
    /\ pc[t] = "acquire"
    /\ CanAcquire(t)
    /\ holders' = holders \cup {t}
    /\ pc' = [pc EXCEPT ![t] = IF call[t].op = "add_metric" THEN "key" ELSE "read"]
    /\ UNCHANGED <<store, now, hist, result, call, seen, committed, slas>>

\* add_metric, lines 116-117
EnsureKey(t) ==
    /\ pc[t] = "key"
    /\ store' = WithKey(store, call[t].resource_id)
    /\ pc' = [pc EXCEPT ![t] = "insert"]
    /\ UNCHANGED <<now, hist, result, call, holders, seen, committed, slas>>

\* add_metric, lines 119-127
InsertEntry(t) ==
    /\ pc[t] = "insert"
    /\ store' = [store EXCEPT ![call[t].resource_id] = Insert(@, call[t].args[1])]
    /\ pc' = [pc EXCEPT ![t] = "trim"]
    /\ UNCHANGED <<now, hist, result, call, holders, seen, committed, slas>>

\* add_metric, lines 129-131
TrimEntries(t) ==
    /\ pc[t] = "trim"
    /\ store' = [store EXCEPT ![call[t].resource_id] = Retain(@)]
    /\ pc' = [pc EXCEPT ![t] = "release"]
    /\ UNCHANGED <<now, hist, result, call, holders, seen, committed, slas>>

\* what a read returned, what the same read returns on the store of the completed
\* adds, and the series it read from
Observation(value, expected, series) ==
    [value |-> value, expected |-> expected, series |-> series]

\* get_latest_metric, lines 143-146
ReadLatest(t) ==
    /\ pc[t] = "read"
    /\ call[t].op = "get_latest_metric"
    /\ seen' = [seen EXCEPT ![t] =
           Observation(get_latest_metric(store, call[t].resource_id),
                       get_latest_metric(committed, call[t].resource_id),
                       Entries(store, call[t].resource_id))]
    /\ pc' = [pc EXCEPT ![t] = "release"]
    /\ UNCHANGED <<store, now, hist, result, call, holders, committed, slas>>

\* get_metrics_last_n_minutes, lines 164-173
ReadWindow(t) ==
    /\ pc[t] = "read"
    /\ call[t].op = "get_metrics_last_n_minutes"
    /\ seen' = [seen EXCEPT ![t] =
           Observation(get_metrics_last_n_minutes(store, now, call[t].resource_id,
                                                  call[t].args[1]),
                       get_metrics_last_n_minutes(committed, now, call[t].resource_id,
                                                  call[t].args[1]),
                       Entries(store, call[t].resource_id))]
    /\ pc' = [pc EXCEPT ![t] = "release"]
    /\ UNCHANGED <<store, now, hist, result, call, holders, committed, slas>>

\* the "with" block is left and the call returns; an add is then complete
Release(t) ==
    /\ pc[t] = "release"
    /\ holders' = holders \ {t}
    /\ pc' = [pc EXCEPT ![t] = "idle"]
    /\ call' = [call EXCEPT ![t] = NoCall]
    /\ seen' = [seen EXCEPT ![t] = None]
    /\ IF call[t].op = "add_metric"
       THEN /\ hist' = Append(hist, call[t].args[1])
            /\ committed' = add_metric(committed, call[t].args[1])
       ELSE UNCHANGED <<hist, committed>>
    /\ UNCHANGED <<store, now, result, slas>>

NextConc ==
    \E t \in Threads :
        \/ ConcAddMetric(t)
        \/ ConcGetLatestMetric(t)
        \/ ConcGetMetricsLastNMinutes(t)
        \/ Acquire(t)
        \/ EnsureKey(t)
        \/ InsertEntry(t)
        \/ TrimEntries(t)
        \/ ReadLatest(t)
        \/ ReadWindow(t)
        \/ Release(t)

SpecConc == InitConc /\ [][NextConc]_vars

---------------------------------------------------------------------------
(* The detector on a store that holds the series of one resource: sample i *)
(* of the series was taken at instant (i - 1) * TimeStep.                  *)

\* 40, 50, 60 have mean 50 and sample standard deviation 10: against them 75 has
\* z = 2.5 and 70 has z = 2.0
DetectUsages ==
    { <<50, 50, 50>>, <<86, 86, 86>>, <<40, 40, 40>>, <<60, 60, 60>>, <<75, 70, 50>> }

DetectClock == { 2 * TimeStep, 3 * TimeStep, 4 * TimeStep }

DetectWindowSizes == {2, 3}

DetectZThresholds == {DEFAULT_Z_THRESHOLD}

\* the usages of the samples of a series, up to the capacity of the store
DetectSeries == UNION { [1..n -> DetectUsages] : n \in 0..MAX_ENTRIES_PER_RESOURCE }

InitDetect ==
    \E usages \in DetectSeries :
        LET adds == [ i \in 1..Len(usages) |->
                        MetricEntry(<<"a">>, usages[i], (i - 1) * TimeStep, i) ]
        IN /\ store = AfterAdds(adds, <<>>)
           /\ hist = adds
           /\ now = 2 * TimeStep
           /\ result = Result("none", <<>>, <<>>, Return(None))
           /\ ConcVarsInit

RunDetectAnomaly == DetectAnomalyOf(ConcIds, DetectWindowSizes, DetectZThresholds)

TickDetect ==
    /\ now + TimeStep \in DetectClock
    /\ now' = now + TimeStep
    /\ UNCHANGED <<store, hist, result, concVars>>

NextDetect ==
    \/ RunDetectAnomaly
    \/ TickDetect

SpecDetect == InitDetect /\ [][NextDetect]_vars

---------------------------------------------------------------------------
(* The detector on a series whose latest sample lies just beyond the       *)
(* threshold: against the baseline 40, 42, 50 (mean 44, sample variance    *)
(* 28) the value 53 has z = 9 / sqrt(28) = 1.7008                          *)

FineUsages == { <<40, 40, 40>>, <<42, 42, 42>>, <<50, 50, 50>>, <<53, 53, 53>> }

FineZThresholds == { 17, DEFAULT_Z_THRESHOLD }

InitFine ==
    \E usages \in UNION { [1..n -> FineUsages] : n \in 0..MAX_ENTRIES_PER_RESOURCE } :
        LET adds == [ i \in 1..Len(usages) |->
                        MetricEntry(<<"a">>, usages[i], (i - 1) * TimeStep, i) ]
        IN /\ store = AfterAdds(adds, <<>>)
           /\ hist = adds
           /\ now = 2 * TimeStep
           /\ result = Result("none", <<>>, <<>>, Return(None))
           /\ ConcVarsInit

FineDetectAnomaly == DetectAnomalyOf(ConcIds, DetectWindowSizes, FineZThresholds)

NextFine == FineDetectAnomaly

SpecFine == InitFine /\ [][NextFine]_vars

---------------------------------------------------------------------------
(* The risk scorer and the detector on a store that holds the series of    *)
(* one resource, sample i of the series taken at instant (i - 1) * TimeStep *)

\* against the baseline 50, 50, 60 the value 75 has z = 3.75 and 95 has z = 7.22;
\* 95 breaches the three default thresholds
RiskUsages == { <<50, 50, 50>>, <<60, 60, 60>>, <<95, 95, 95>>, <<75, 70, 50>> }

RiskUsagesOther == { <<50, 50, 50>>, <<95, 95, 95>> }

RiskClock == { TimeStep + Half, 2 * TimeStep, 3 * TimeStep }

RiskLookbacks == { TimeStep, 2 * TimeStep }

\* 50 is a usage of the samples: a value equal to its threshold
RiskCpuThresholds == { DEFAULT_CPU_THRESHOLD, 50 }

RiskSeries(usages) == UNION { [1..n -> usages] : n \in 0..MAX_ENTRIES_PER_RESOURCE }

\* the add_metric calls that build a series for a resource, ids counted from first
RiskAdds(resource_id, usages, first) ==
    [ i \in 1..Len(usages) |->
        MetricEntry(resource_id, usages[i], (i - 1) * TimeStep, first + i) ]

InitRisk ==
    \E usages \in RiskSeries(RiskUsages) :
        /\ store = AfterAdds(RiskAdds(<<"a">>, usages, 0), <<>>)
        /\ hist = RiskAdds(<<"a">>, usages, 0)
        /\ now = TimeStep + Half
        /\ result = Result("none", <<>>, <<>>, Return(None))
        /\ ConcVarsInit

RiskComputeSlaRisk == ComputeSlaRiskOf(ConcIds, RiskLookbacks, RiskCpuThresholds)

RiskDetectAnomaly == DetectAnomalyOf(ConcIds, {DEFAULT_WINDOW_SIZE}, DetectZThresholds)

\* the clock advances to its next reading
TickRisk ==
    /\ \E t \in RiskClock :
           /\ now < t
           /\ \A u \in RiskClock : ~(now < u /\ u < t)
           /\ now' = t
    /\ UNCHANGED <<store, hist, result, concVars>>

NextRisk ==
    \/ RiskComputeSlaRisk
    \/ RiskDetectAnomaly
    \/ TickRisk

SpecRisk == InitRisk /\ [][NextRisk]_vars

\* The risk scorer on a store that holds the series of two resources
InitRiskPair ==
    \E usages_a \in RiskSeries(RiskUsages), usages_b \in RiskSeries(RiskUsagesOther) :
        LET adds == RiskAdds(<<"a">>, usages_a, 0)
                    \o RiskAdds(<<"b">>, usages_b, Len(usages_a))
        IN /\ store = AfterAdds(adds, <<>>)
           /\ hist = adds
           /\ now = 2 * TimeStep
           /\ result = Result("none", <<>>, <<>>, Return(None))
           /\ ConcVarsInit

PairComputeSlaRisk == ComputeSlaRiskOf(ConcIds, {2 * TimeStep}, RiskCpuThresholds)

NextRiskPair == PairComputeSlaRisk

SpecRiskPair == InitRiskPair /\ [][NextRiskPair]_vars

---------------------------------------------------------------------------
(* app/api/v1/metrics.py: the request handlers over the store and the      *)
(* detector.  A handler ends in a response with a status code (an          *)
(* HTTPException it raises is such a response), or an exception of the     *)
(* core leaves it.                                                         *)

HttpResponse(status_code) == Return([status_code |-> status_code])

\* MetricIngest, lines 15-22: the three usages are within 0..100
ValidMetricIngest(usage) == \A i \in 1..3 : 0 <= usage[i] /\ usage[i] <= 100

\* ingest_metrics, lines 49-64, for a body that passed MetricIngest
ingest_metrics(resource_id) ==
    IF IsBlank(resource_id) THEN ValueError          \* raised by add_metric, line 58
    ELSE HttpResponse(200)

\* get_latest_metric of metrics.py, lines 74-90
metrics_get_latest_metric(st, resource_id) ==
    LET metric == get_latest_metric(st, resource_id)
    IN IF metric.exc # "none" THEN metric
       ELSE IF metric.ret = None THEN HttpResponse(404)
       ELSE HttpResponse(200)

\* analyze_metrics, lines 100-122; Query(10, ge=2, le=100) answers 422 by itself
analyze_metrics(st, t, resource_id, window_size) ==
    IF window_size < 2 \/ window_size > 100 THEN HttpResponse(422)
    ELSE LET detected == detect_anomaly(st, t, resource_id, window_size,
                                        DEFAULT_Z_THRESHOLD)
         IN IF detected.exc = "ValueError" THEN HttpResponse(400)
            ELSE IF detected.exc # "none" THEN detected
            ELSE IF detected.ret.status = INSUFFICIENT_DATA THEN HttpResponse(404)
            ELSE HttpResponse(200)

\* debug_metrics, lines 131-147
debug_metrics(st, t, resource_id) ==
    LET metrics == get_metrics_last_n_minutes(st, t, resource_id, 60)
    IN IF metrics.exc # "none" THEN metrics ELSE HttpResponse(200)

\* the usages of a request body: within the range of MetricIngest, and beyond it
ApiUsages == { <<50, 50, 50>>, <<101, 50, 50>> }

ApiWindowSizes == { 1, 2, 101 }

\* POST /metrics/ingest
IngestMetrics ==
    \E resource_id \in ResourceIds, timestamp \in Timestamps, usage \in ApiUsages :
        LET metric == MetricEntry(resource_id, usage, timestamp, Len(hist) + 1)
        IN /\ IF ~ValidMetricIngest(usage)
              THEN /\ result' = Result("ingest_metrics", resource_id, <<timestamp>>,
                                       HttpResponse(422))
                   /\ UNCHANGED <<store, hist>>
              ELSE IF IsBlank(resource_id)
              THEN /\ result' = Result("ingest_metrics", resource_id, <<timestamp>>,
                                       ingest_metrics(resource_id))
                   /\ UNCHANGED <<store, hist>>
              ELSE /\ Len(hist) < MaxCallAdds
                   /\ store' = add_metric(store, metric)
                   /\ hist' = Append(hist, metric)
                   /\ result' = Result("ingest_metrics", resource_id, <<timestamp>>,
                                       ingest_metrics(resource_id))
           /\ UNCHANGED <<now, concVars>>

\* GET /metrics/{resource_id}/latest; an empty path segment matches no route
LatestMetric ==
    \E resource_id \in StoreIds :
        /\ result' = Result("get_latest_metric", resource_id, <<>>,
                            metrics_get_latest_metric(store, resource_id))
        /\ UNCHANGED <<store, now, hist, concVars>>

\* GET /metrics/{resource_id}/analyze
AnalyzeMetrics ==
    \E resource_id \in StoreIds, window_size \in ApiWindowSizes :
        /\ result' = Result("analyze_metrics", resource_id, <<window_size>>,
                            analyze_metrics(store, now, resource_id, window_size))
        /\ UNCHANGED <<store, now, hist, concVars>>

\* GET /metrics/{resource_id}/debug
DebugMetrics ==
    \E resource_id \in StoreIds :
        /\ result' = Result("debug_metrics", resource_id, <<>>,
                            debug_metrics(store, now, resource_id))
        /\ UNCHANGED <<store, now, hist, concVars>>

NextApi ==
    \/ IngestMetrics
    \/ LatestMetric
    \/ AnalyzeMetrics
    \/ DebugMetrics
    \/ Tick

SpecApi == Init /\ [][NextApi]_vars

---------------------------------------------------------------------------
(* compute_sla_risk next to a caller that adds samples.  The scorer reads   *)
(* its lookback (line 126), and later the detector reads the last 60       *)
(* minutes (line 145); each read runs inside the lock, and add_metric      *)
(* calls of the other caller complete before, between and after them.      *)

\* a scorer that takes the breach rate from a second read of its lookback
ScoreAfterRereading(st, t, resource_id, metrics, lookback_minutes, cpu_threshold) ==
    ScoreRisk(resource_id,
              get_metrics_last_n_minutes(st, t, resource_id, lookback_minutes).ret,
              detect_anomaly(st, t, resource_id,
                             DEFAULT_WINDOW_SIZE, DEFAULT_Z_THRESHOLD).ret,
              cpu_threshold, DEFAULT_MEMORY_THRESHOLD, DEFAULT_GPU_THRESHOLD)

\* compute_sla_risk from line 140 on: metrics is what line 126 read, st the store
\* when detect_anomaly reads it
ScoreAfterReads(st, t, resource_id, metrics, lookback_minutes, cpu_threshold) ==
    ScoreRisk(resource_id, metrics,
              detect_anomaly(st, t, resource_id,
                             DEFAULT_WINDOW_SIZE, DEFAULT_Z_THRESHOLD).ret,
              cpu_threshold, DEFAULT_MEMORY_THRESHOLD, DEFAULT_GPU_THRESHOLD)

InterleavedUsages == { <<50, 50, 50>>, <<60, 60, 60>>, <<95, 95, 95>> }

\* the samples the other caller adds: one older than the series, one newer
InterleavedTimestamps == { 0, 3 * TimeStep }

\* the samples ingested before the calls, and the add_metric calls next to them
MinInterleavedSeries == 2

MaxInterleavedAdds == 1

InitInterleaved ==
    \E usages \in UNION { [1..n -> InterleavedUsages] :
                             n \in MinInterleavedSeries..(MAX_ENTRIES_PER_RESOURCE - 1) } :
        /\ store = AfterAdds(RiskAdds(<<"a">>, usages, 0), <<>>)
        /\ hist = RiskAdds(<<"a">>, usages, 0)
        /\ now = 2 * TimeStep
        /\ result = Result("none", <<>>, <<>>, Return(None))
        /\ ConcVarsInit

\* the other caller: add_metric for the resource, as a whole
InterleavedAdd ==
    \E timestamp \in InterleavedTimestamps, usage \in InterleavedUsages :
        LET metric == MetricEntry(<<"a">>, usage, timestamp, Len(hist) + 1)
        IN /\ Len(hist) < MAX_ENTRIES_PER_RESOURCE + MaxInterleavedAdds
           /\ store' = add_metric(store, metric)
           /\ hist' = Append(hist, metric)
           /\ result' = Result("add_metric", <<"a">>, <<timestamp>>, Return(None))
           /\ UNCHANGED <<now, concVars>>

\* compute_sla_risk, lines 120-138: validation and its own read
ComputeRead ==
    \E lookback_minutes \in RiskLookbacks, cpu_threshold \in RiskCpuThresholds :
        LET read == get_metrics_last_n_minutes(store, now, <<"a">>, lookback_minutes)
        IN /\ pc[1] = "idle"
           /\ call' = [call EXCEPT ![1] =
                  Call("compute_sla_risk", <<"a">>, <<lookback_minutes, cpu_threshold>>)]
           /\ seen' = [seen EXCEPT ![1] = read.ret]
           /\ IF read.ret = <<>>
              THEN /\ result' = Result("compute_sla_risk", <<"a">>,
                                       <<lookback_minutes, cpu_threshold>>,
                                       Return(SLARiskResult(INSUFFICIENT_DATA, <<"a">>,
                                                            0, "LOW", <<>>)))
                   /\ UNCHANGED pc
              ELSE /\ pc' = [pc EXCEPT ![1] = "detect"]
                   /\ UNCHANGED result
           /\ UNCHANGED <<store, now, hist, holders, committed, slas>>

\* compute_sla_risk, lines 140-217: the detector's read and the score
ComputeDetect ==
    /\ pc[1] = "detect"
    /\ result' = Result("compute_sla_risk", call[1].resource_id, call[1].args,
                        Return(ScoreAfterReads(store, now, call[1].resource_id, seen[1],
                                               call[1].args[1], call[1].args[2])))
    /\ pc' = [pc EXCEPT ![1] = "idle"]
    /\ UNCHANGED <<store, now, hist, call, holders, seen, committed, slas>>

NextInterleaved ==
    \/ InterleavedAdd
    \/ ComputeRead
    \/ ComputeDetect

SpecInterleaved == InitInterleaved /\ [][NextInterleaved]_vars

---------------------------------------------------------------------------
(* add_metric on a store whose series "a" is full *)

MaxRetentionAdds == 2

\* the adds before: N_max samples for "a", older ones first, and up to one for "b"
RetentionAdds(older, others) ==
    [ i \in 1..(MAX_ENTRIES_PER_RESOURCE + others) |->
        IF i <= MAX_ENTRIES_PER_RESOURCE
        THEN MetricEntry(<<"a">>, <<50, 50, 50>>,
                         IF i <= older THEN TimeStep ELSE 2 * TimeStep, i)
        ELSE MetricEntry(<<"b">>, <<50, 50, 50>>, TimeStep, i) ]

InitRetention ==
    \E older \in 0..MAX_ENTRIES_PER_RESOURCE, others \in 0..1 :
        /\ store = AfterAdds(RetentionAdds(older, others), <<>>)
        /\ hist = RetentionAdds(older, others)
        /\ now = 2 * TimeStep + Half
        /\ result = Result("none", <<>>, <<>>, Return(None))
        /\ ConcVarsInit

RetentionAddMetric ==
    AddMetricOf(StoreIds, MAX_ENTRIES_PER_RESOURCE + 1 + MaxRetentionAdds)

NextRetention == RetentionAddMetric

SpecRetention == InitRetention /\ [][NextRetention]_vars

---------------------------------------------------------------------------
(* SLAService (sla_service.py): the SLA records and their compliance check. *)
(* An optional float is <<>> (Python's None) or <<v>>.                      *)

ACTIVE == "active"

BREACHED == "breached"

WARNING == "warning"

\* a read of the local variable compliance before any assignment to it
UnboundLocalError == [exc |-> "UnboundLocalError", ret |-> <<>>]

\* the ids uuid4 draws, the targets and warning thresholds of SLACreate and SLAUpdate,
\* and the current values; every current_value * 100 / target_value is exact
SlaIds == { "s1", "s2" }

SlaTargets == { 0 - 50, 0, 50, 100 }

SlaWarningThresholds == { 80 }

SlaValues == { 0 - 10, 40, 50, 120 }

\* the dict st with the record stored under sla_id
WithSla(st, sla_id, sla) ==
    [ k \in DOMAIN st \cup {sla_id} |-> IF k = sla_id THEN sla ELSE st[k] ]

\* create_sla, lines 23-35
NewSla(t, sla_id, target_value, warning_threshold) ==
    [ id |-> sla_id, target_value |-> target_value,
      warning_threshold |-> warning_threshold, status |-> ACTIVE,
      current_value |-> <<>>, compliance_percentage |-> <<>>,
      created_at |-> t, updated_at |-> t ]

\* check_sla_compliance, lines 104-109: the status of a compliance percentage
SlaStatusOf(compliance, warning_threshold) ==
    IF compliance >= 100 THEN ACTIVE
    ELSE IF compliance >= warning_threshold THEN WARNING
    ELSE BREACHED

\* check_sla_compliance, lines 92-113: the dict afterwards and the outcome
check_sla_compliance(st, t, sla_id, current_value) ==
    IF sla_id \notin DOMAIN st THEN [slas |-> st, outcome |-> Return(None)]
    ELSE LET sla == [st[sla_id] EXCEPT !.current_value = <<current_value>>]
         IN IF sla.target_value > 0
            THEN LET compliance == (current_value * 100) \div sla.target_value
                     checked ==
                         [sla EXCEPT
                            !.compliance_percentage =
                                <<IF compliance < 100 THEN compliance ELSE 100>>,
                            !.status = SlaStatusOf(compliance, sla.warning_threshold),
                            !.updated_at = t]
                 IN [slas |-> WithSla(st, sla_id, checked), outcome |-> Return(checked)]
            ELSE [slas |-> WithSla(st, sla_id, sla), outcome |-> UnboundLocalError]

\* create_sla
CreateSla ==
    \E sla_id \in SlaIds \ DOMAIN slas, target_value \in SlaTargets,
       warning_threshold \in SlaWarningThresholds :
        LET sla == NewSla(now, sla_id, target_value, warning_threshold)
        IN /\ slas' = WithSla(slas, sla_id, sla)
           /\ result' = Result("create_sla", sla_id,
                               <<target_value, warning_threshold>>, Return(sla))
           /\ UNCHANGED <<store, now, hist, pc, call, holders, seen, committed>>

\* update_sla with a target_value
UpdateSla ==
    \E sla_id \in SlaIds, target_value \in SlaTargets :
        /\ IF sla_id \notin DOMAIN slas
           THEN /\ result' = Result("update_sla", sla_id, <<target_value>>, Return(None))
                /\ UNCHANGED slas
           ELSE LET sla == [slas[sla_id] EXCEPT !.target_value = target_value,
                                                !.updated_at = now]
                IN /\ slas' = WithSla(slas, sla_id, sla)
                   /\ result' = Result("update_sla", sla_id, <<target_value>>,
                                       Return(sla))
        /\ UNCHANGED <<store, now, hist, pc, call, holders, seen, committed>>

\* delete_sla
DeleteSla ==
    \E sla_id \in SlaIds :
        /\ slas' = [ k \in DOMAIN slas \ {sla_id} |-> slas[k] ]
        /\ result' = Result("delete_sla", sla_id, <<>>,
                            Return([deleted |-> sla_id \in DOMAIN slas]))
        /\ UNCHANGED <<store, now, hist, pc, call, holders, seen, committed>>

\* check_sla_compliance
CheckSlaCompliance ==
    \E sla_id \in SlaIds, current_value \in SlaValues :
        LET checked == check_sla_compliance(slas, now, sla_id, current_value)
        IN /\ slas' = checked.slas
           /\ result' = Result("check_sla_compliance", sla_id, <<current_value>>,
                               checked.outcome)
           /\ UNCHANGED <<store, now, hist, pc, call, holders, seen, committed>>

NextSla ==
    \/ CreateSla
    \/ UpdateSla
    \/ DeleteSla
    \/ CheckSlaCompliance

SpecSla == Init /\ [][NextSla]_vars

---------------------------------------------------------------------------
(* Properties of the store *)

\* the specification's "empty or whitespace-only" resource identifier
EmptyOrWhitespace(resource_id) ==
    \A i \in 1..Len(resource_id) : resource_id[i] \in {" ", "\t", "\n"}

\* the samples of one resource among those accepted, in arrival order
HistOf(resource_id) == SelectSeq(hist, LAMBDA m : m.resource_id = resource_id)

SortedByTimestamp(entries) ==
    \A i \in 1..Len(entries) - 1 : entries[i].timestamp <= entries[i + 1].timestamp

\* m comes before n in the stable timestamp order: earlier, or as early and added first
Before(m, n) ==
    \/ m.timestamp < n.timestamp
    \/ m.timestamp = n.timestamp /\ m.id < n.id

\* the stable timestamp-sort of a sequence of samples with distinct ids
StableSort(samples) ==
    LET n == Len(samples)
        rank(i) == 1 + Cardinality({ j \in 1..n : Before(samples[j], samples[i]) })
    IN [ k \in 1..n |-> samples[CHOOSE i \in 1..n : rank(i) = k] ]

\* arrivals of one resource that were not chronological
OutOfOrder(samples) ==
    \E i \in 1..Len(samples) - 1 : samples[i + 1].timestamp < samples[i].timestamp

HasDuplicateTimestamps(samples) ==
    \E i, j \in 1..Len(samples) : i # j /\ samples[i].timestamp = samples[j].timestamp

\* C1: in every reachable state the series of every resource is sorted
\* non-decreasing by timestamp, whatever the arrival order of the adds.
C1_SeriesSorted ==
    \A r \in DOMAIN store : SortedByTimestamp(store[r])

\* C1 witness: a series that received out-of-order and duplicate timestamps and
\* was trimmed.
C1_Witness ==
    \E r \in DOMAIN store :
        /\ OutOfOrder(HistOf(r))
        /\ HasDuplicateTimestamps(HistOf(r))
        /\ Len(HistOf(r)) > MAX_ENTRIES_PER_RESOURCE
        /\ Len(store[r]) = MAX_ENTRIES_PER_RESOURCE

\* C2: once more than MAX_ENTRIES_PER_RESOURCE samples were added to a resource,
\* its series has exactly MAX_ENTRIES_PER_RESOURCE elements: the last ones of the
\* stable timestamp-sort of all samples ever added to it, in that order.
C2_Retention ==
    \A r \in ValidIds :
        Len(HistOf(r)) > MAX_ENTRIES_PER_RESOURCE =>
            /\ r \in DOMAIN store
            /\ Len(store[r]) = MAX_ENTRIES_PER_RESOURCE
            /\ store[r] = LastN(StableSort(HistOf(r)), MAX_ENTRIES_PER_RESOURCE)

\* C2 witness: more than the capacity was added, out of order, and the sample that
\* was dropped is not the one that arrived first.
C2_Witness ==
    \E r \in DOMAIN store :
        /\ Len(HistOf(r)) > MAX_ENTRIES_PER_RESOURCE
        /\ OutOfOrder(HistOf(r))
        /\ \E i \in 1..Len(store[r]) : store[r][i] = HistOf(r)[1]

\* C7: get_metrics_last_n_minutes with valid arguments returns exactly the retained
\* samples with timestamp >= now - minutes, in series order, as a suffix of the
\* series; the empty sequence for an unknown resource.
C7_Window ==
    (/\ result.op = "get_metrics_last_n_minutes"
     /\ ~EmptyOrWhitespace(result.resource_id)
     /\ result.args[1] > 0)
    => LET entries == Entries(store, result.resource_id)
           cutoff == result.at - result.args[1]
       IN /\ result.value = SelectSeq(entries, LAMBDA m : m.timestamp >= cutoff)
          /\ result.value = SubSeq(entries, Len(entries) - Len(result.value) + 1,
                                   Len(entries))
          /\ result.exc = "none"
          /\ (result.resource_id \notin DOMAIN store => result.value = <<>>)

\* C7 witness: a window that cuts the series, keeping a sample exactly at the cutoff
\* and a sample later than the clock.
C7_Witness ==
    /\ result.op = "get_metrics_last_n_minutes"
    /\ result.exc = "none"
    /\ result.value # <<>>
    /\ Len(result.value) < Len(Entries(store, result.resource_id))
    /\ result.value[1].timestamp = result.at - result.args[1]
    /\ result.value[Len(result.value)].timestamp > result.at

\* C8: get_latest_metric returns none exactly when nothing was ever added for the
\* resource; otherwise the sample with the greatest timestamp ever added and, among
\* those that share it, the one added last.
C8_Latest ==
    (result.op = "get_latest_metric" /\ ~EmptyOrWhitespace(result.resource_id))
    => LET added == HistOf(result.resource_id)
       IN /\ result.exc = "none"
          /\ (result.value = None) <=> (added = <<>>)
          /\ added # <<>> =>
                /\ \E i \in 1..Len(added) : added[i] = result.value
                /\ \A i \in 1..Len(added) :
                       added[i] = result.value \/ Before(added[i], result.value)

\* C8 witness: the latest sample is neither the last one added nor alone with its
\* timestamp, and older samples were dropped.
C8_Witness ==
    /\ result.op = "get_latest_metric"
    /\ result.exc = "none"
    /\ result.value # None
    /\ LET added == HistOf(result.resource_id)
       IN /\ Len(added) > MAX_ENTRIES_PER_RESOURCE
          /\ added[Len(added)] # result.value
          /\ \E i \in 1..Len(added) : /\ added[i] # result.value
                                      /\ added[i].timestamp = result.value.timestamp

---------------------------------------------------------------------------
(* Properties of the argument validation *)

CoreOps == { "add_metric", "get_latest_metric", "get_metrics_last_n_minutes",
             "detect_anomaly", "compute_sla_risk" }

\* C5: a core operation called with an empty or whitespace-only resource id fails
\* with ValueError and leaves the store as it was.
C5_BlankResource ==
    [][ (result'.op \in CoreOps /\ EmptyOrWhitespace(result'.resource_id))
        => (result'.exc = "ValueError" /\ store' = store) ]_vars

\* C5 witness: add_metric, the operation that writes the store, was refused for a
\* whitespace-only id while the store holds data.
C5_Witness ==
    /\ result.op = "add_metric"
    /\ result.resource_id = <<" ">>
    /\ result.exc = "ValueError"
    /\ DOMAIN store # {}

\* C6: with a valid resource id, get_metrics_last_n_minutes fails for minutes <= 0,
\* compute_sla_risk for lookback_minutes <= 0, detect_anomaly for window_size < 2 or
\* z_threshold <= 0, whatever the store holds.
C6_InvalidParameters ==
    ~EmptyOrWhitespace(result.resource_id) =>
        /\ (result.op = "get_metrics_last_n_minutes" /\ result.args[1] <= 0)
               => result.exc = "ValueError"
        /\ (result.op = "compute_sla_risk" /\ result.args[1] <= 0)
               => result.exc = "ValueError"
        /\ (result.op = "detect_anomaly" /\ (result.args[1] < 2 \/ result.args[2] <= 0))
               => result.exc = "ValueError"

\* C6 witness: detect_anomaly refused a window_size below 2 for a resource the
\* store does not know, while it holds data for another one.
C6_Witness ==
    /\ result.op = "detect_anomaly"
    /\ ~EmptyOrWhitespace(result.resource_id)
    /\ result.args[1] < 2
    /\ result.args[2] > 0
    /\ result.exc = "ValueError"
    /\ result.resource_id \notin DOMAIN store
    /\ DOMAIN store # {}

---------------------------------------------------------------------------
(* Properties of the store under concurrent callers *)

\* the store after the adds of a sequence, each applied as a whole, in order
RECURSIVE ApplyAdds(_, _)
ApplyAdds(adds, st) ==
    IF adds = <<>> THEN st ELSE ApplyAdds(Tail(adds), add_metric(st, Head(adds)))

\* C3: under any interleaving of add_metric, get_latest_metric and
\* get_metrics_last_n_minutes, a read returns what it returns on the store of the
\* adds completed so far, each applied as a whole; the series it reads is sorted
\* and no longer than MAX_ENTRIES_PER_RESOURCE; and when no operation is in its
\* critical section the store holds every completed add.
C3_ReadsSeeCompletedAdds ==
    /\ committed = ApplyAdds(hist, <<>>)
    /\ \A t \in Threads :
           seen[t] # None =>
               /\ seen[t].value = seen[t].expected
               /\ SortedByTimestamp(seen[t].series)
               /\ Len(seen[t].series) <= MAX_ENTRIES_PER_RESOURCE
    /\ holders = {} => store = committed

\* C3 witness: a read of a resource returned a sample while an add_metric on the
\* same resource waits for the lock, the series being full after adds that
\* arrived out of order.
C3_Witness ==
    \E t, u \in Threads :
        /\ seen[t] # None
        /\ seen[t].value.ret # <<>>
        /\ call[u].op = "add_metric"
        /\ pc[u] = "acquire"
        /\ call[u].resource_id = call[t].resource_id
        /\ Len(seen[t].series) = MAX_ENTRIES_PER_RESOURCE
        /\ OutOfOrder(HistOf(call[t].resource_id))

\* C4: a store operation on one resource is never blocked waiting for a store
\* operation in progress on a different resource: a thread that waits for the
\* lock while it is held waits for a holder working on its own resource.
C4_NoContentionAcrossResources ==
    \A t \in Threads, u \in holders :
        (pc[t] = "acquire" /\ u # t) => call[u].resource_id = call[t].resource_id

---------------------------------------------------------------------------
(* Properties of the detector *)

\* the call recorded in result is a detect_anomaly with valid arguments
ValidDetectCall ==
    /\ result.op = "detect_anomaly"
    /\ ~EmptyOrWhitespace(result.resource_id)
    /\ result.args[1] >= 2
    /\ result.args[2] > 0

\* the samples of the resource of the call taken in the 60 minutes before it
WithinLastHour ==
    SelectSeq(Entries(store, result.resource_id),
              LAMBDA m : m.timestamp >= result.at - 60)

\* C9: detect_anomaly with fewer than window_size + 1 samples in the last 60
\* minutes (none, or exactly window_size) returns INSUFFICIENT_DATA with
\* anomaly_detected false, no anomaly metric and confidence 0; with window_size + 1
\* samples or more it returns OK or ANOMALY.
C9_InsufficientData ==
    ValidDetectCall =>
        /\ result.exc = "none"
        /\ IF Len(WithinLastHour) < result.args[1] + 1
           THEN result.value = [ status           |-> "INSUFFICIENT_DATA",
                                 anomaly_detected |-> FALSE,
                                 anomaly_metrics  |-> <<>>,
                                 confidence_score |-> 0 ]
           ELSE result.value.status \in {"OK", "ANOMALY"}

\* C9 witness: exactly window_size samples lie within the last 60 minutes, older
\* ones exist, and the detector answered INSUFFICIENT_DATA.
C9_Witness ==
    /\ ValidDetectCall
    /\ Len(WithinLastHour) = result.args[1]
    /\ Len(Entries(store, result.resource_id)) > result.args[1]
    /\ result.value.status = "INSUFFICIENT_DATA"

\* the window_size samples before the latest one carry the same value, metric by
\* metric
ConstantBaseline ==
    LET n == Len(WithinLastHour)
        baseline == SubSeq(WithinLastHour, n - result.args[1], n - 1)
    IN \A i, j \in 1..Len(baseline) :
           /\ baseline[i].cpu_usage = baseline[j].cpu_usage
           /\ baseline[i].memory_usage = baseline[j].memory_usage
           /\ baseline[i].gpu_usage = baseline[j].gpu_usage

\* C10: when all window_size baseline samples carry the same value for each of the
\* three metrics, detect_anomaly returns OK with anomaly_detected false and
\* confidence 0, whatever the latest sample.
C10_ConstantBaselineOK ==
    (/\ ValidDetectCall
     /\ Len(WithinLastHour) >= result.args[1] + 1
     /\ ConstantBaseline)
    => /\ result.value.status = "OK"
       /\ result.value.anomaly_detected = FALSE
       /\ result.value.confidence_score = 0

\* the values of one metric over the baseline of the call: the window_size samples
\* before the latest one of the last 60 minutes
BaselineValues(metric_name) ==
    LET n == Len(WithinLastHour)
        baseline == SubSeq(WithinLastHour, n - result.args[1], n - 1)
    IN [ i \in 1..Len(baseline) |-> baseline[i][metric_name] ]

RECURSIVE SumOf(_)
SumOf(values) == IF values = <<>> THEN 0 ELSE Head(values) + SumOf(Tail(values))

\* z > z_threshold in exact arithmetic, for z = |latest - mean| / sample_std with the
\* n - 1 denominator and z = 0 when the standard deviation is 0.  With n values
\* of sum S and Q the sum of the (n * x - S)^2: z^2 = (n - 1) * (n * latest - S)^2 / Q.
ZAboveThreshold(metric_name) ==
    LET values == BaselineValues(metric_name)
        n == Len(values)
        S == SumOf(values)
        Q == SumOf([ i \in 1..n |-> (n * values[i] - S) * (n * values[i] - S) ])
        d == n * WithinLastHour[Len(WithinLastHour)][metric_name] - S
    IN /\ Q > 0
       /\ 100 * (n - 1) * d * d > result.args[2] * result.args[2] * Q

\* C11: with enough data, the anomaly set of detect_anomaly is exactly the metrics
\* whose z-score is strictly greater than z_threshold, and the status is ANOMALY
\* exactly when that set is not empty, OK otherwise.
C11_AnomalyIffZAboveThreshold ==
    (ValidDetectCall /\ Len(WithinLastHour) >= result.args[1] + 1)
    => /\ result.value.anomaly_metrics = SelectSeq(MetricNames, ZAboveThreshold)
       /\ result.value.status =
              IF \E i \in 1..3 : ZAboveThreshold(MetricNames[i]) THEN "ANOMALY" ELSE "OK"

\* the z-score the detector computes for a metric of the call: the latest sample
\* of the last 60 minutes against the window_size samples before it
ComputedZ(metric_name) ==
    LET n == Len(WithinLastHour)
    IN ZScoreOf(SubSeq(WithinLastHour, n - result.args[1], n - 1),
                WithinLastHour[n], metric_name)

\* c thousandths is min((z - t) / t, 1) rounded to 3 decimals: with x = 2000 * z / t,
\* c = 1000 when x >= 4000 and otherwise 2c + 1999 <= x <= 2c + 2001, compared on
\* the squares (x2.q is the integer part of x^2, x2.r = 0 when x^2 is an integer)
IsConfidenceOf(c, z, t) ==
    IF ZAtLeastTwice(z, t) THEN c = 1000
    ELSE LET d == t * t * z.den
             x2 == ScaleDiv(z.num \div d, z.num % d, d,
                            <<10, 10, 10, 10, 10, 10, 10, 10, 4>>)
             lo == (2 * c + 1999) * (2 * c + 1999)
             hi == (2 * c + 2001) * (2 * c + 2001)
         IN /\ c \in 0..1000
            /\ lo <= x2.q
            /\ (x2.q < hi \/ (x2.q = hi /\ x2.r = 0))

\* C12: for status ANOMALY the confidence is min((z_max - z_threshold) / z_threshold, 1)
\* rounded to 3 decimals, z_max being the largest z-score among the anomalous
\* metrics; for OK and INSUFFICIENT_DATA it is 0; it always lies in [0, 1].
C12_Confidence ==
    ValidDetectCall =>
        LET r == result.value
            flagged == { i \in 1..3 : \E j \in 1..Len(r.anomaly_metrics) :
                                          r.anomaly_metrics[j] = MetricNames[i] }
        IN /\ r.confidence_score \in 0..1000
           /\ r.status \in {"OK", "INSUFFICIENT_DATA"} => r.confidence_score = 0
           /\ r.status = "ANOMALY" =>
                  \E i \in flagged :
                      /\ \A j \in flagged :
                             ~ZLess(ComputedZ(MetricNames[i]), ComputedZ(MetricNames[j]))
                      /\ IsConfidenceOf(r.confidence_score, ComputedZ(MetricNames[i]),
                                        result.args[2])

\* C12 witness: two metrics are anomalous with different z-scores and the
\* confidence, taken from the larger one, lies strictly between 0 and 1.
C12_Witness ==
    /\ ValidDetectCall
    /\ result.value.status = "ANOMALY"
    /\ Len(result.value.anomaly_metrics) = 2
    /\ result.value.confidence_score \in 1..999
    /\ ZLess(ComputedZ(result.value.anomaly_metrics[2]),
             ComputedZ(result.value.anomaly_metrics[1]))

\* C19: samples of one series with equal timestamps stand in arrival order, whether
\* the later one came through the append fast path or the binary-search insertion,
\* and every later add keeps that order as long as both are retained.
C19_StableDuplicates ==
    \A r \in DOMAIN store :
        \A i, j \in 1..Len(store[r]) :
            (i < j /\ store[r][i].timestamp = store[r][j].timestamp)
                => store[r][i].id < store[r][j].id

\* C19 witness: a sample was inserted by binary search (a sample with a later
\* timestamp had arrived before it) behind an earlier sample with its timestamp,
\* and a series holds two equal-timestamp samples of which the second was appended.
C19_Witness ==
    /\ \E r \in DOMAIN store : \E i, j, k \in 1..Len(store[r]) :
           /\ i < j /\ j < k
           /\ store[r][i].timestamp = store[r][j].timestamp
           /\ store[r][j].timestamp < store[r][k].timestamp
           /\ store[r][k].id < store[r][j].id
           /\ store[r][i].id < store[r][j].id
    /\ \E r \in DOMAIN store :
           LET n == Len(store[r])
           IN /\ n >= 2
              /\ store[r][n - 1].timestamp = store[r][n].timestamp
              /\ \A i \in 1..n - 1 : store[r][i].id < store[r][n].id

\* C20: the baseline of detect_anomaly is exactly the window_size samples that
\* immediately precede the last sample of the 60-minute window, in series order;
\* the latest sample is never part of it, and neither is a sample older than 60
\* minutes, even when fewer than window_size newer samples exist (the call then
\* returns INSUFFICIENT_DATA rather than reach further back).
C20_Baseline ==
    ValidDetectCall =>
        LET n == Len(WithinLastHour)
            window_size == result.args[1]
            read == get_metrics_last_n_minutes(store, result.at, result.resource_id,
                                               DETECT_LOOKBACK_MINUTES)
            window == BaselineWindow(read.ret, window_size)
        IN IF n < window_size + 1
           THEN result.value.status = INSUFFICIENT_DATA
           ELSE /\ Len(window) = window_size
                /\ \A i \in 1..window_size :
                       /\ window[i] = WithinLastHour[n - window_size - 1 + i]
                       /\ window[i].id # WithinLastHour[n].id
                       /\ window[i].timestamp >= result.at - 60
                /\ result.value.anomaly_metrics =
                       SelectSeq(MetricNames,
                                 LAMBDA m : ZGreater(ComputedZ(m), result.args[2]))

\* C20 witness: the 60-minute window holds more than window_size + 1 samples, so the
\* baseline is neither the whole window nor its beginning, and the latest sample
\* differs from the baseline enough to be flagged.
C20_Witness ==
    /\ ValidDetectCall
    /\ Len(WithinLastHour) > result.args[1] + 1
    /\ result.value.status = "ANOMALY"
    /\ WithinLastHour[1].cpu_usage # WithinLastHour[2].cpu_usage

\* the aged case: a sample older than 60 minutes is in the series while the window
\* holds exactly window_size + 1 samples, and the call still analyses them
OldSampleOutsideBaseline ==
    /\ ValidDetectCall
    /\ Len(WithinLastHour) = result.args[1] + 1
    /\ Len(Entries(store, result.resource_id)) > Len(WithinLastHour)
    /\ result.value.status # INSUFFICIENT_DATA

---------------------------------------------------------------------------
(* Properties of the risk scorer *)

ValidRiskCall ==
    /\ result.op = "compute_sla_risk"
    /\ ~EmptyOrWhitespace(result.resource_id)
    /\ result.args[1] > 0

\* the samples of the resource of the call taken in the lookback before it
WithinLookback ==
    SelectSeq(Entries(store, result.resource_id),
              LAMBDA m : m.timestamp >= result.at - result.args[1])

\* C14: compute_sla_risk with valid arguments returns INSUFFICIENT_DATA, risk_score 0,
\* risk_level LOW and no signal exactly when the resource has no sample within the
\* last lookback_minutes; with at least one such sample the status is OK and the
\* signals are anomaly_presence (weight 0.4) and threshold_breach_rate (weight 0.6).
C14_InsufficientData ==
    ValidRiskCall =>
        /\ result.exc = "none"
        /\ IF WithinLookback = <<>>
           THEN /\ result.value.status = "INSUFFICIENT_DATA"
                /\ result.value.risk_score = 0
                /\ result.value.risk_level = "LOW"
                /\ result.value.signals = <<>>
           ELSE /\ result.value.status = "OK"
                /\ Len(result.value.signals) = 2
                /\ result.value.signals[1].name = "anomaly_presence"
                /\ result.value.signals[1].weight = 4
                /\ result.value.signals[2].name = "threshold_breach_rate"
                /\ result.value.signals[2].weight = 6

\* C14 witness: the lookback holds samples but fewer than the detector needs in its
\* 60 minutes, and the risk result is OK with a breach signal above 0.
C14_Witness ==
    /\ ValidRiskCall
    /\ WithinLookback # <<>>
    /\ Len(SelectSeq(Entries(store, result.resource_id),
                     LAMBDA m : m.timestamp >= result.at - 60)) <= DEFAULT_WINDOW_SIZE
    /\ result.value.status = "OK"
    /\ result.value.signals[2].value > 0

\* C15: the risk_level of a result is determined by its risk_score: LOW if and
\* only if the score is below 0.3, MEDIUM if and only if it is at least 0.3 and
\* below 0.6, HIGH if and only if it is at least 0.6.
C15_RiskLevel ==
    (ValidRiskCall /\ result.exc = "none") =>
        LET score == result.value.risk_score
            level == result.value.risk_level
        IN /\ score \in 0..1000
           /\ level \in {"LOW", "MEDIUM", "HIGH"}
           /\ level = "LOW" <=> score < 300
           /\ level = "MEDIUM" <=> (300 <= score /\ score < 600)
           /\ level = "HIGH" <=> score >= 600

\* C15 witness: a score of exactly 0.3, with level MEDIUM.
C15_Witness ==
    /\ ValidRiskCall
    /\ result.value.status = "OK"
    /\ result.value.risk_score = 300
    /\ result.value.risk_level = "MEDIUM"

\* a score of exactly 0.6, with level HIGH
ScoreAtHighThreshold ==
    /\ ValidRiskCall
    /\ result.value.status = "OK"
    /\ result.value.risk_score = 600
    /\ result.value.risk_level = "HIGH"

\* the breaches and the threshold checks of the call res: over the samples of its
\* lookback, those above the cpu threshold of the call and the default memory and
\* gpu thresholds
LookbackOf(res) ==
    SelectSeq(Entries(store, res.resource_id),
              LAMBDA m : m.timestamp >= res.at - res.args[1])

BreachesOf(res) ==
    LET w == LookbackOf(res)
    IN Cardinality({ i \in 1..Len(w) : w[i].cpu_usage > res.args[2] })
       + Cardinality({ i \in 1..Len(w) : w[i].memory_usage > DEFAULT_MEMORY_THRESHOLD })
       + Cardinality({ i \in 1..Len(w) : w[i].gpu_usage > DEFAULT_GPU_THRESHOLD })

ChecksOf(res) == 3 * Len(LookbackOf(res))

IsOkRisk(res) ==
    /\ res.op = "compute_sla_risk"
    /\ res.exc = "none"
    /\ res.value.status = "OK"

LevelRank(level) == IF level = "LOW" THEN 1 ELSE IF level = "MEDIUM" THEN 2 ELSE 3

\* the result lo has the anomaly signal of hi and at most its breach rate, and
\* neither a greater score nor a higher level
Monotone(lo, hi) ==
    (/\ IsOkRisk(lo) /\ IsOkRisk(hi)
     /\ lo.value.signals[1].value = hi.value.signals[1].value
     /\ BreachesOf(lo) * ChecksOf(hi) <= BreachesOf(hi) * ChecksOf(lo))
    => /\ lo.value.risk_score <= hi.value.risk_score
       /\ LevelRank(lo.value.risk_level) <= LevelRank(hi.value.risk_level)

\* C16: of two risk results with the same anomaly signal value, taken on two series
\* of the store or with two cpu thresholds, the one with the higher threshold-breach
\* rate has neither a smaller risk_score nor a lower risk_level.
C16_RiskMonotone ==
    [][ (store' = store) => (Monotone(result, result') /\ Monotone(result', result)) ]_vars

\* C16 witness: a result with an anomaly signal above 0 whose score is greater than
\* the score the same series gets, with the same anomaly signal, under the other
\* cpu threshold, while the other resource has samples too.
C16_Witness ==
    /\ IsOkRisk(result)
    /\ result.value.signals[1].value > 0
    /\ \E r \in DOMAIN store : r # result.resource_id /\ store[r] # <<>>
    /\ \E cpu_threshold \in RiskCpuThresholds :
           LET other == compute_sla_risk(store, now, result.resource_id, result.args[1],
                                         cpu_threshold, DEFAULT_MEMORY_THRESHOLD,
                                         DEFAULT_GPU_THRESHOLD).ret
           IN /\ other.status = "OK"
              /\ other.signals[1].value = result.value.signals[1].value
              /\ other.signals[2].value < result.value.signals[2].value
              /\ other.risk_score < result.value.risk_score

\* res and next are calls of the detector, or of the risk scorer, with the same
\* arguments
SameCall(res, next) ==
    /\ res.op \in {"detect_anomaly", "compute_sla_risk"}
    /\ next.op = res.op
    /\ next.resource_id = res.resource_id
    /\ next.args = res.args

SameOutcome(res, next) == next.exc = res.exc /\ next.value = res.value

\* the samples the call res can read when the clock reads t: those of the last 60
\* minutes and, for the risk scorer, those of its lookback
WindowsAt(t, res) ==
    LET entries == Entries(store, res.resource_id)
    IN << SelectSeq(entries, LAMBDA m : m.timestamp >= t - 60),
          IF res.op = "compute_sla_risk"
          THEN SelectSeq(entries, LAMBDA m : m.timestamp >= t - res.args[1])
          ELSE <<>> >>

\* C13: two consecutive detect_anomaly calls, or two consecutive compute_sla_risk
\* calls, with the same arguments and no add_metric between them return identical
\* results.
C13_SameResult ==
    [][ (SameCall(result, result') /\ store' = store) => SameOutcome(result, result') ]_vars

\* C13, amended: the two calls return identical results when, in addition, no sample
\* left the 60-minute window or the lookback between the two clock readings.
C13_SameResultSameWindows ==
    [][ (/\ SameCall(result, result')
         /\ store' = store
         /\ WindowsAt(result.at, result) = WindowsAt(result'.at, result'))
        => SameOutcome(result, result') ]_vars

\* C13 witness: a risk result with an anomaly signal above 0, returned at the second
\* clock reading for windows that hold what they held at the first.
C13_Witness ==
    /\ IsOkRisk(result)
    /\ result.at = 2 * TimeStep
    /\ WindowsAt(TimeStep + Half, result) = WindowsAt(result.at, result)
    /\ result.value.signals[1].value > 0
    /\ result.value.signals[2].value > 0

---------------------------------------------------------------------------
(* Failures *)

WellFormedAnomalyResult(r) ==
    /\ r.status \in {"OK", "ANOMALY", "INSUFFICIENT_DATA"}
    /\ r.confidence_score \in 0..1000

WellFormedRiskResult(r) ==
    /\ r.status \in {"OK", "INSUFFICIENT_DATA"}
    /\ r.risk_score \in 0..1000
    /\ r.risk_level \in {"LOW", "MEDIUM", "HIGH"}

\* C17: whatever the store holds and whatever the arguments, detect_anomaly and
\* compute_sla_risk either return a well-formed result (confidence and risk score
\* in [0, 1], a declared status) or fail with ValueError; no other failure occurs.
C17_NoFatalCondition ==
    /\ result.op = "detect_anomaly" =>
           \/ result.exc = "ValueError"
           \/ result.exc = "none" /\ WellFormedAnomalyResult(result.value)
    /\ result.op = "compute_sla_risk" =>
           \/ result.exc = "ValueError"
           \/ result.exc = "none" /\ WellFormedRiskResult(result.value)

\* the same, for lookbacks that stay within the representable datetimes
NoFatalConditionInRange ==
    (result.op = "compute_sla_risk" /\ result.args[1] > DatetimeRange)
    \/ C17_NoFatalCondition

Handlers == { "ingest_metrics", "get_latest_metric", "analyze_metrics", "debug_metrics" }

IsClientError(res) ==
    /\ res.exc = "none"
    /\ res.value.status_code \in 400..499

\* C18: each of the handlers ingest_metrics, get_latest_metric, analyze_metrics and
\* debug_metrics answers a request whose resource identifier the core rejects
\* (empty or whitespace-only) with a client-error response; the error of the core
\* never leaves the handler.
C18_ClientError ==
    (result.op \in Handlers /\ EmptyOrWhitespace(result.resource_id))
    => IsClientError(result)

\* the same, for analyze_metrics alone
AnalyzeClientError ==
    (result.op = "analyze_metrics" /\ EmptyOrWhitespace(result.resource_id))
    => IsClientError(result)

\* analyze_metrics answered 400 for a whitespace-only resource identifier
AnalyzeAnswered400 ==
    /\ result.op = "analyze_metrics"
    /\ EmptyOrWhitespace(result.resource_id)
    /\ result.exc = "none"
    /\ result.value.status_code = 400

---------------------------------------------------------------------------
(* Frame properties *)

ReadOps ==
    { "get_latest_metric", "get_metrics_last_n_minutes", "detect_anomaly",
      "compute_sla_risk" }

\* C21: get_latest_metric, get_metrics_last_n_minutes, detect_anomaly and
\* compute_sla_risk leave the series of every resource unchanged, and a read for a
\* resource that was never ingested creates no series: the store holds a series
\* exactly for the resources that received a successful add.
C21_ReadsLeaveStore ==
    /\ [][ result'.op \in ReadOps => store' = store ]_vars
    /\ [](DOMAIN store = { hist[i].resource_id : i \in 1..Len(hist) })

\* C21 witness: a read with valid arguments for a resource that was never
\* ingested, on a store that holds the series of another resource.
C21_Witness ==
    /\ result.op \in ReadOps
    /\ result.exc = "none"
    /\ ~EmptyOrWhitespace(result.resource_id)
    /\ result.resource_id \notin DOMAIN store
    /\ store # <<>>

---------------------------------------------------------------------------
(* The signals of the risk scorer *)

\* what detect_anomaly(resource_id), with its default window_size and z_threshold,
\* returns at the instant of the call
DetectorAtCall ==
    detect_anomaly(store, result.at, result.resource_id,
                   DEFAULT_WINDOW_SIZE, DEFAULT_Z_THRESHOLD).ret

\* C22: in compute_sla_risk the anomaly signal value is the confidence of
\* detect_anomaly, called with its default window_size and z_threshold whatever the
\* parameters of compute_sla_risk, when it reports ANOMALY, and 0 when it reports OK
\* or INSUFFICIENT_DATA; with samples in the lookback a detector INSUFFICIENT_DATA
\* makes the risk result neither an error nor INSUFFICIENT_DATA.
C22_AnomalySignal ==
    (ValidRiskCall /\ WithinLookback # <<>>) =>
        /\ result.exc = "none"
        /\ result.value.status = "OK"
        /\ result.value.signals[1].name = "anomaly_presence"
        /\ result.value.signals[1].value =
               IF DetectorAtCall.status = "ANOMALY"
               THEN DetectorAtCall.confidence_score ELSE 0

\* C22 witness: the detector reports ANOMALY with a confidence strictly between 0
\* and 1 and the lookback is shorter than the detector's 60 minutes.
C22_Witness ==
    /\ ValidRiskCall
    /\ WithinLookback # <<>>
    /\ result.args[1] < 60
    /\ DetectorAtCall.status = "ANOMALY"
    /\ result.value.signals[1].value \in 1..999

\* the detector has too few samples while the lookback holds some
DetectorInsufficient ==
    /\ ValidRiskCall
    /\ WithinLookback # <<>>
    /\ DetectorAtCall.status = INSUFFICIENT_DATA
    /\ result.value.status = "OK"

\* s thousandths is num / den rounded to 3 decimals (den > 0)
IsRounded(s, num, den) ==
    /\ 2 * (1000 * num - s * den) <= den
    /\ 2 * (s * den - 1000 * num) <= den

\* C23: for a non-empty lookback risk_score is min(0.4 * A + 0.6 * B, 1) rounded to 3
\* decimals, A the anomaly signal and B the number of (metric, sample) pairs of the
\* lookback strictly above the metric's threshold over 3 times the number of
\* samples; a value equal to its threshold is no breach; risk_score is in [0, 1].
C23_RiskScore ==
    (ValidRiskCall /\ WithinLookback # <<>>) =>
        LET A == result.value.signals[1].value
            b == BreachesOf(result)
            c == ChecksOf(result)
            \* 0.4 * A + 0.6 * B = num / den
            num == 4 * A * c + 6000 * b
            den == 10000 * c
        IN /\ result.value.risk_score \in 0..1000
           /\ IsRounded(result.value.signals[2].value, b, c)
           /\ IF num >= den THEN result.value.risk_score = 1000
              ELSE IsRounded(result.value.risk_score, num, den)

\* C23 witness: a sample of the lookback has a cpu usage equal to the cpu threshold
\* of the call, other pairs are breaches, and the anomaly signal is above 0.
C23_Witness ==
    /\ ValidRiskCall
    /\ result.value.status = "OK"
    /\ \E i \in 1..Len(WithinLookback) : WithinLookback[i].cpu_usage = result.args[2]
    /\ BreachesOf(result) > 0
    /\ result.value.signals[1].value > 0
    /\ result.value.risk_score \in 1..999

\* C28: when no (metric, sample) pair of the lookback exceeds its threshold,
\* compute_sla_risk returns a risk_score of at most 0.4 and risk_level LOW or MEDIUM;
\* when all pairs exceed their thresholds it returns a risk_score of at least 0.6
\* and risk_level HIGH, whatever the anomaly signal.
C28_AnomalyAloneNeverHigh ==
    (ValidRiskCall /\ WithinLookback # <<>>) =>
        /\ BreachesOf(result) = 0 =>
               /\ result.value.risk_score <= 400
               /\ result.value.risk_level \in {"LOW", "MEDIUM"}
        /\ BreachesOf(result) = ChecksOf(result) =>
               /\ result.value.risk_score >= 600
               /\ result.value.risk_level = "HIGH"

\* C28 witness: no pair of the lookback exceeds its threshold and the anomaly signal
\* alone makes the risk MEDIUM.
C28_Witness ==
    /\ ValidRiskCall
    /\ WithinLookback # <<>>
    /\ BreachesOf(result) = 0
    /\ result.value.signals[1].value > 0
    /\ result.value.risk_level = "MEDIUM"

\* all pairs of a lookback of several samples exceed their thresholds
AllBreached ==
    /\ ValidRiskCall
    /\ Len(WithinLookback) > 1
    /\ BreachesOf(result) = ChecksOf(result)
    /\ result.value.risk_level = "HIGH"

\* C27: whenever detect_anomaly returns status ANOMALY its confidence_score is
\* strictly greater than 0, so that an ANOMALY is never scored like no anomaly.
C27_AnomalyHasConfidence ==
    (ValidDetectCall /\ result.value.status = "ANOMALY")
    => result.value.confidence_score > 0

\* the (metric, sample) pairs of the samples w above their thresholds
BreachesIn(w, cpu_threshold) ==
    Cardinality({ i \in 1..Len(w) : w[i].cpu_usage > cpu_threshold })
    + Cardinality({ i \in 1..Len(w) : w[i].memory_usage > DEFAULT_MEMORY_THRESHOLD })
    + Cardinality({ i \in 1..Len(w) : w[i].gpu_usage > DEFAULT_GPU_THRESHOLD })

\* C24: when add_metric calls for the resource complete between the scorer's own
\* read and the detector's later read, compute_sla_risk still returns a well-formed
\* result (status OK, two signals, risk_score in [0, 1], risk_level consistent with
\* it), the breach-rate signal computed from the first read and the anomaly signal
\* from the store the second read sees.
C24_ToleratesMutation ==
    [][ (pc[1] = "detect" /\ pc'[1] = "idle") =>
            LET r == result'.value
                detected == detect_anomaly(store, now, call[1].resource_id,
                                           DEFAULT_WINDOW_SIZE, DEFAULT_Z_THRESHOLD).ret
            IN /\ result'.exc = "none"
               /\ r.status = "OK"
               /\ Len(r.signals) = 2
               /\ r.risk_score \in 0..1000
               /\ r.risk_level = (IF r.risk_score < 300 THEN "LOW"
                                  ELSE IF r.risk_score < 600 THEN "MEDIUM" ELSE "HIGH")
               /\ IsRounded(r.signals[2].value,
                            BreachesIn(seen[1], call[1].args[2]), 3 * Len(seen[1]))
               /\ r.signals[1].value = (IF detected.status = "ANOMALY"
                                        THEN detected.confidence_score ELSE 0)
      ]_vars

\* C24 witness: the scorer read fewer samples than the detector needs, none of them
\* a breach, an add completed before the detector's read, and the result carries an
\* anomaly signal above 0 and a breach rate of 0.
C24_Witness ==
    /\ pc[1] = "idle"
    /\ result.op = "compute_sla_risk"
    /\ result.value.status = "OK"
    /\ seen[1] # <<>>
    /\ Len(seen[1]) <= DEFAULT_WINDOW_SIZE
    /\ call[1].args[1] = 2 * TimeStep
    /\ result.value.signals[1].value > 0
    /\ result.value.signals[2].value = 0

\* the sample an add_metric step accepted
Accepted == hist'[Len(hist')]

AcceptedAdd == result'.op = "add_metric" /\ hist' # hist

\* C25: when the series of a resource holds N_max samples and add_metric is called
\* with a sample whose timestamp is strictly older than every retained one, the call
\* returns without an error and the series is afterwards identical to the series
\* before: the new sample is not retained and none is displaced.
C25_SilentDrop ==
    [][ \A r \in DOMAIN store :
          (/\ AcceptedAdd
           /\ Accepted.resource_id = r
           /\ Len(store[r]) = MAX_ENTRIES_PER_RESOURCE
           /\ \A i \in 1..Len(store[r]) : Accepted.timestamp < store[r][i].timestamp)
          => /\ result'.exc = "none"
             /\ result'.value = None
             /\ store' = store
      ]_vars

\* the last sample accepted, and the accepted samples of its resource before it
LastAccepted == hist[Len(hist)]

AcceptedBefore ==
    Cardinality({ i \in 1..(Len(hist) - 1) :
                    hist[i].resource_id = LastAccepted.resource_id })

\* C25 witness: the last add was accepted for a full series, its timestamp older
\* than every retained sample, and the sample is not in the series.
C25_Witness ==
    /\ result.op = "add_metric" /\ result.exc = "none"
    /\ hist # <<>>
    /\ result.resource_id = LastAccepted.resource_id
    /\ AcceptedBefore >= MAX_ENTRIES_PER_RESOURCE
    /\ LET entries == store[LastAccepted.resource_id]
       IN /\ Len(entries) = MAX_ENTRIES_PER_RESOURCE
          /\ \A i \in 1..Len(entries) :
                /\ LastAccepted.timestamp < entries[i].timestamp
                /\ entries[i].id # LastAccepted.id

\* C26: a successful add_metric for a resource changes only the series of that
\* resource: no other series changes and no other key appears, also when the add
\* trims the series.
C26_OtherSeriesUnchanged ==
    [][ AcceptedAdd =>
          /\ DOMAIN store' = DOMAIN store \cup { Accepted.resource_id }
          /\ \A r \in DOMAIN store \ { Accepted.resource_id } : store'[r] = store[r]
      ]_vars

\* C26 witness: the last add trimmed the series of its resource, the new sample
\* retained, while another resource has a series.
C26_Witness ==
    /\ result.op = "add_metric" /\ result.exc = "none"
    /\ hist # <<>>
    /\ result.resource_id = LastAccepted.resource_id
    /\ AcceptedBefore >= MAX_ENTRIES_PER_RESOURCE
    /\ \E i \in 1..Len(store[LastAccepted.resource_id]) :
          store[LastAccepted.resource_id][i].id = LastAccepted.id
    /\ \E r \in DOMAIN store \ { LastAccepted.resource_id } : store[r] # <<>>

---------------------------------------------------------------------------
(* The compliance check of the SLA service *)

\* C29: check_sla_compliance on an existing SLA completes for every stored
\* target_value (values <= 0 included) and every current_value, returning the record
\* with a status that is one of ACTIVE, WARNING and BREACHED; it never fails after it
\* changed the record; on an unknown id it returns None and leaves the records
\* unchanged.
C29_CheckCompletes ==
    [][ result'.op = "check_sla_compliance" =>
          IF result'.resource_id \in DOMAIN slas
          THEN /\ result'.exc # "none" => slas' = slas
               /\ result'.exc = "none"
               /\ result'.value = slas'[result'.resource_id]
               /\ result'.value.status \in { ACTIVE, WARNING, BREACHED }
          ELSE /\ result'.value = None
               /\ slas' = slas
      ]_vars

\* the same for the SLAs whose target_value is above 0
CheckCompletesPositiveTarget ==
    [][ result'.op = "check_sla_compliance" =>
          IF result'.resource_id \in DOMAIN slas
          THEN slas[result'.resource_id].target_value > 0 =>
                  /\ result'.exc = "none"
                  /\ result'.value = slas'[result'.resource_id]
                  /\ result'.value.status \in { ACTIVE, WARNING, BREACHED }
          ELSE /\ result'.value = None
               /\ slas' = slas
      ]_vars

\* a check failed and left its current_value in the record, the status and the
\* compliance percentage those of before
StaleRecord ==
    /\ result.op = "check_sla_compliance"
    /\ result.exc = "UnboundLocalError"
    /\ result.resource_id \in DOMAIN slas
    /\ slas[result.resource_id].current_value = result.args
    /\ slas[result.resource_id].compliance_percentage = <<>>

=============================================================================
